---- MODULE Spec2Model ----
(***************************************************************************)
(* Topology resolver of the lab-device booking platform.                   *)
(*                                                                         *)
(* The store holds the inventory devices and the bookings.  A resolver     *)
(* (TopologyResolver) builds a physical graph over the inventory for a     *)
(* time window and maps a logical topology onto it with three strategies.  *)
(*                                                                         *)
(* Conventions of the model                                                *)
(*   - instants are integer ticks, TicksPerDay ticks to a calendar day;    *)
(*   - scores are integers in hundredths: the float 1.0 is 100, 0.3 is 30; *)
(*   - a Python list is a sequence, a dict a function, None is NoneVal.    *)
(***************************************************************************)
EXTENDS Integers, Sequences, FiniteSets, TLC

VARIABLES
    devices,         \* store: <<device record>>, device i has id i
    bookings,        \* store: booking_id -> booking record (booking_table)
    physical_graph,  \* TopologyResolver.physical_graph
    device_cache,    \* TopologyResolver.device_cache
    request,         \* arguments of the resolve_topology call being answered
    result           \* what that call returned

vars == <<devices, bookings, physical_graph, device_cache, request, result>>

NoneVal == "None"

(***************************************************************************)
(* Bounds of the model                                                     *)
(***************************************************************************)
MaxDevices == 2      \* devices in the inventory (Spec)
MaxBookings == 1     \* rows of booking_table (Spec)
MaxTime == 2         \* instants are 0..MaxTime
MaxNodes == 2        \* logical nodes of a request (Spec)
MaxStratDevices == 3 \* devices in the inventory (SpecStrategy)
MaxStratNodes == 3   \* logical nodes of a request (SpecStrategy)
MaxStratEdges == 1   \* logical edges of a request (SpecStrategy)
MaxLinkDevices == 4  \* devices in the inventory (SpecLink)
MaxLinkNodes == 3    \* logical nodes of a request (SpecLink)
MaxOracleDevices == 1   \* devices in the inventory (SpecOracle)
MaxOracleBookings == 1  \* rows of booking_table (SpecOracle)
MaxStatsConfirmed == 8  \* CONFIRMED rows in the lookback (SpecStats)
MaxStatsOther == 1      \* rows of each other kind (SpecStats)

TicksPerDay == 1440

(***************************************************************************)
(* Strings.  str.lower() and str.strip() over the vocabulary of the model. *)
(***************************************************************************)
Lower(s) ==
    CASE s = "ROADM" -> "roadm"
      [] s = "Roadm" -> "roadm"
      [] s = "Fiber" -> "fiber"
      [] s = "FIBER" -> "fiber"
      [] s = "ILA" -> "ila"
      [] s = "OTDR" -> "otdr"
      [] s = "Switch" -> "switch"
      [] s = "Transceiver" -> "transceiver"
      [] s = "Available" -> "available"
      [] s = "Maintenance" -> "maintenance"
      [] s = "MAINTENANCE" -> "maintenance"
      [] s = "Unavailable" -> "unavailable"
      [] s = "Broken" -> "broken"
      [] s = "BROKEN" -> "broken"
      [] s = "In Use" -> "in use"
      [] s = "ROADM " -> "roadm "
      [] s = "Unknown" -> "unknown"
      [] OTHER -> s

Strip(s) ==
    CASE s = "ROADM " -> "ROADM"
      [] s = "roadm " -> "roadm"
      [] s = " roadm" -> "roadm"
      [] OTHER -> s

\* Python's `x or default`
OrDefault(x, default) == IF x = NoneVal \/ x = "" THEN default ELSE x

Min(a, b) == IF a <= b THEN a ELSE b
Max(a, b) == IF a >= b THEN a ELSE b

RECURSIVE SumSeq(_)
SumSeq(s) == IF s = <<>> THEN 0 ELSE Head(s) + SumSeq(Tail(s))

\* s[a:b] on a Python list (0-based, b exclusive, clipped)
Slice(s, a, b) == SubSeq(s, a + 1, Min(b, Len(s)))

Range(s) == {s[i] : i \in 1..Len(s)}

\* list.sort(key=..., reverse=True) on a list of <<key, item>> pairs: stable,
\* descending by key
RECURSIVE InsertDesc(_, _)
InsertDesc(x, s) ==
    IF s = <<>> THEN <<x>>
    ELSE IF Head(s)[1] >= x[1] THEN <<Head(s)>> \o InsertDesc(x, Tail(s))
         ELSE <<x>> \o s

RECURSIVE SortDescFrom(_, _)
SortDescFrom(s, acc) ==
    IF s = <<>> THEN acc
    ELSE SortDescFrom(Tail(s), InsertDesc(Head(s), acc))

SortDesc(s) == SortDescFrom(s, <<>>)

\* sort a list of records descending by their fit_score
SortByFitScore(s) ==
    LET keyed == [i \in 1..Len(s) |-> <<s[i].fit_score, s[i]>>]
        sorted == SortDesc(keyed)
    IN  [i \in 1..Len(s) |-> sorted[i][2]]

\* round(num/den, 2) in hundredths, num >= 0 and den > 0.  The weighted sum
\* 0.7*a + 0.3*b is computed in binary floating point; on an exact tie of the
\* decimal value the double lies just below it for the topologies of at most
\* three edges drawn here, so a tie rounds down.
RoundDiv(num, den) ==
    LET q == num \div den
        r == num % den
    IN  IF 2 * r <= den THEN q ELSE q + 1

(***************************************************************************)
(* Availability oracle                                                     *)
(***************************************************************************)
ActiveStatuses == {"PENDING", "CONFIRMED", "CONFLICTING"}

\* variant of the query that filters on CONFIRMED only
overlapping_bookings_confirmed_only(bk, d, s, e) ==
    {b \in DOMAIN bk : /\ bk[b].device_id = d
                       /\ bk[b].end_time > s
                       /\ bk[b].start_time < e
                       /\ bk[b].status = "CONFIRMED"}

\* the query of build_physical_graph: the (start, end) pairs of the active
\* bookings of device d that overlap [s, e]
overlapping_bookings(bk, d, s, e) ==
    {b \in DOMAIN bk : /\ bk[b].device_id = d
                       /\ bk[b].end_time > s
                       /\ bk[b].start_time < e
                       /\ bk[b].status \in ActiveStatuses}

\* variant whose status list lacks 'broken'
_check_device_availability_without_broken(device, s, e, bks) ==
    IF device.status # NoneVal /\ device.status # ""
       /\ Lower(device.status) \in {"maintenance", "unavailable"}
    THEN FALSE
    ELSE ~ \E b \in bks : ~ (b[2] <= s \/ b[1] >= e)

_check_device_availability(device, s, e, bks) ==
    IF device.status # NoneVal /\ device.status # ""
       /\ Lower(device.status) \in {"maintenance", "unavailable", "broken"}
    THEN FALSE
    ELSE ~ \E b \in bks : ~ (b[2] <= s \/ b[1] >= e)

\* A maintenance string is modelled by its "/"-separated parts; a part is
\* either text [text |-> "..."] or a date token [day |-> n] that
\* strptime("%Y-%m-%d") accepts.
IsDateToken(p) == DOMAIN p = {"day"}

\* None is the empty tuple, the empty string the tuple of one empty part
MaintNone == <<>>

MaintTruthy(m) == m # MaintNone /\ m # <<[text |-> ""]>>

\* s.split("/")[-1] if "/" in s else s
MaintLastPart(m) == m[Len(m)]

MaintParses(m) == Len(m) >= 1 /\ IsDateToken(MaintLastPart(m))

\* datetime.strptime gives midnight of the day
MaintInstant(m) == MaintLastPart(m).day * TicksPerDay

\* variant that lets the one string that parses stand for both ends
_check_maintenance_either_date(device, s, e) ==
    IF device.status # NoneVal /\ device.status # ""
       /\ Lower(device.status) = "maintenance"
    THEN TRUE
    ELSE LET sp == MaintParses(device.maintenance_start)
             ep == MaintParses(device.maintenance_end)
             ms == IF sp THEN device.maintenance_start ELSE device.maintenance_end
             me == IF ep THEN device.maintenance_end ELSE device.maintenance_start
         IN  IF sp \/ ep
             THEN ~ (MaintInstant(me) < s \/ MaintInstant(ms) > e)
             ELSE FALSE

_check_maintenance(device, s, e) ==
    IF device.status # NoneVal /\ device.status # ""
       /\ Lower(device.status) = "maintenance"
    THEN TRUE
    ELSE IF MaintTruthy(device.maintenance_start) /\ MaintTruthy(device.maintenance_end)
         THEN IF MaintParses(device.maintenance_start) /\ MaintParses(device.maintenance_end)
              THEN ~ (MaintInstant(device.maintenance_end) < s
                      \/ MaintInstant(device.maintenance_start) > e)
              ELSE FALSE
         ELSE FALSE

(***************************************************************************)
(* Physical graph builder                                                  *)
(***************************************************************************)
compatible_pairs ==
    { <<"roadm", "fiber">>, <<"roadm", "ila">>, <<"roadm", "transceiver">>,
      <<"roadm", "switch">>,
      <<"fiber", "roadm">>, <<"fiber", "ila">>, <<"fiber", "otdr">>,
      <<"ila", "fiber">>, <<"ila", "roadm">>,
      <<"transceiver", "roadm">>, <<"transceiver", "switch">>,
      <<"switch", "transceiver">>, <<"switch", "roadm">> }

_can_connect(attrs1, attrs2) ==
    LET type1 == Lower(attrs1.device_type)
        type2 == Lower(attrs2.device_type)
    IN  <<type1, type2>> \in compatible_pairs \/ <<type2, type1>> \in compatible_pairs

\* variant that records every device under one type
DeviceAttrs_of_one_type(device, bk, s, e) ==
    LET bks == {<<bk[b].start_time, bk[b].end_time>> :
                    b \in overlapping_bookings(bk, device.id, s, e)}
        is_available == _check_device_availability(device, s, e, bks)
        in_maintenance == _check_maintenance(device, s, e)
    IN  [device_id |-> device.id,
         device_type |-> "ROADM",
         status |-> OrDefault(device.status, "Available"),
         available |-> is_available /\ ~ in_maintenance,
         in_maintenance |-> in_maintenance]

\* the attributes build_physical_graph stores on the node of a device
DeviceAttrs(device, bk, s, e) ==
    LET bks == {<<bk[b].start_time, bk[b].end_time>> :
                    b \in overlapping_bookings(bk, device.id, s, e)}
        is_available == _check_device_availability(device, s, e, bks)
        in_maintenance == _check_maintenance(device, s, e)
    IN  [device_id |-> device.id,
         device_type |-> OrDefault(device.deviceType, "Unknown"),
         status |-> OrDefault(device.status, "Available"),
         available |-> is_available /\ ~ in_maintenance,
         in_maintenance |-> in_maintenance]

\* order: the sequence of device ids in the order the store returned them
BuildGraph(devs, bk, order, s, e) ==
    LET attrs == [d \in Range(order) |-> DeviceAttrs(devs[d], bk, s, e)]
    IN  [nodes |-> order,
         attrs |-> attrs,
         edges |-> {ed \in SUBSET Range(order) :
                        /\ Cardinality(ed) = 2
                        /\ \E a, b \in ed : a # b /\ _can_connect(attrs[a], attrs[b])}]

has_edge(G, a, b) == a # b /\ {a, b} \in G.edges

\* physical_graph = None
NoGraph == [nodes |-> <<>>, attrs |-> <<>>, edges |-> {}, none |-> TRUE]

\* `not physical_graph`: None, or a graph without nodes (len(G) == 0)
GraphFalsy(G) == G = NoGraph \/ Len(G.nodes) = 0

(***************************************************************************)
(* Candidate matcher                                                       *)
(***************************************************************************)
\* fit score of a type-matching device, in hundredths
\* variant that scores a device whose status is not "available" at 0.8
_compute_fit_score_status_penalty(physical_attrs) ==
    IF ~ physical_attrs.available THEN 0
    ELSE IF Lower(physical_attrs.status) = "available" THEN 100
    ELSE IF Lower(physical_attrs.status) = "maintenance" THEN 0
    ELSE 80

_compute_fit_score(physical_attrs) ==
    IF ~ physical_attrs.available THEN 0
    ELSE LET status == Lower(physical_attrs.status)
         IN  IF status = "available" THEN 100
             ELSE IF status = "maintenance" THEN 0
             ELSE 100

\* G is self.physical_graph; available_devices a list of device ids
match_logical_node(G, logical_node, available_devices) ==
    LET logical_type == Strip(logical_node.deviceType)
        matching == SelectSeq(available_devices, LAMBDA d :
                        /\ d \in Range(G.nodes)
                        /\ Lower(Strip(OrDefault(G.attrs[d].device_type, "")))
                               = Lower(logical_type))
        candidates == [i \in 1..Len(matching) |->
                        [device_id |-> matching[i],
                         device_type |-> Strip(OrDefault(G.attrs[matching[i]].device_type, "")),
                         fit_score |-> _compute_fit_score(G.attrs[matching[i]]),
                         available |-> G.attrs[matching[i]].available]]
    IN  IF GraphFalsy(G) THEN <<>> ELSE SortByFitScore(candidates)

\* variant that groups every node of the type, available or not
available_by_type_unfiltered(G, key) ==
    SelectSeq(G.nodes, LAMBDA d : Lower(G.attrs[d].device_type) = key)

\* available_by_type.get(key, []) of resolve_topology: the available node ids
\* of that lower-cased type, in graph order
available_by_type(G, key) ==
    SelectSeq(G.nodes, LAMBDA d : G.attrs[d].available
                                  /\ Lower(G.attrs[d].device_type) = key)

confidence(fit_score) ==
    IF fit_score >= 80 THEN "high" ELSE IF fit_score >= 50 THEN "medium" ELSE "low"

NodeMapping(logical_node, best_match, alternatives) ==
    [logical_node_id |-> logical_node.id,
     physical_device_id |-> best_match.device_id,
     physical_device_type |-> best_match.device_type,
     fit_score |-> best_match.fit_score,
     confidence |-> confidence(best_match.fit_score),
     alternatives |-> alternatives]

(***************************************************************************)
(* Link resolver                                                           *)
(***************************************************************************)
Neighbours(G, S) == {b \in Range(G.nodes) : \E a \in S : has_edge(G, a, b)}

\* len(nx.shortest_path(G, a, b)) - 1 by breadth-first search; -1 when
\* nx.has_path(G, a, b) is false
RECURSIVE BFS(_, _, _, _, _)
BFS(G, frontier, visited, b, depth) ==
    IF b \in frontier THEN depth
    ELSE IF frontier = {} THEN -1
    ELSE BFS(G, Neighbours(G, frontier) \ visited, visited \cup frontier, b, depth + 1)

path_length(G, a, b) == BFS(G, {a}, {}, b, 0)

\* dict.get on the node lookup: 0 stands for None (device ids start at 1, and
\* the code tests the ids for truth)
node_lookup(node_mappings, logical_id) ==
    LET hits == {i \in 1..Len(node_mappings) :
                    node_mappings[i].logical_node_id = logical_id}
    IN  IF hits = {} THEN 0
        ELSE node_mappings[CHOOSE i \in hits : \A j \in hits : j <= i].physical_device_id

\* max(0.5, 1.0 - (path_length - 1) * 0.2)
\* variant that charges the first intermediate hop nothing
indirect_fit_score_from_second_hop(L) == Max(50, 100 - (L - 2) * 20)

indirect_fit_score(L) == Max(50, 100 - (L - 1) * 20)

LinkMapping(G, edge, node_mappings) ==
    LET source_physical == node_lookup(node_mappings, edge.source)
        target_physical == node_lookup(node_mappings, edge.target)
        mapped == source_physical # 0 /\ target_physical # 0
        L == path_length(G, source_physical, target_physical)
        scored ==
            IF ~ mapped THEN [fit_score |-> 0, kind |-> "not mapped", path_length |-> -1]
            ELSE IF has_edge(G, source_physical, target_physical)
                 THEN [fit_score |-> 100, kind |-> "direct", path_length |-> 1]
            ELSE IF source_physical \notin Range(G.nodes)
                    \/ target_physical \notin Range(G.nodes)
                 THEN [fit_score |-> 30, kind |-> "no path", path_length |-> -1]
            ELSE IF L >= 0
                 THEN [fit_score |-> indirect_fit_score(L),
                       kind |-> "indirect", path_length |-> L]
            ELSE [fit_score |-> 30, kind |-> "no path", path_length |-> -1]
    IN  [logical_edge_id |-> <<edge.source, edge.target>>,
         source_mapping |-> edge.source,
         target_mapping |-> edge.target,
         physical_link_id |-> IF mapped THEN <<source_physical, target_physical>> ELSE <<>>,
         fit_score |-> scored.fit_score,
         explanation |-> [kind |-> scored.kind, path_length |-> scored.path_length]]

\* variant that yields no link mapping for an edge with an unmapped endpoint
_generate_link_mappings_of_mapped_edges(G, logical_edges, node_mappings) ==
    SelectSeq([i \in 1..Len(logical_edges) |-> LinkMapping(G, logical_edges[i], node_mappings)],
              LAMBDA l : l.physical_link_id # <<>>)

_generate_link_mappings(G, logical_edges, node_mappings) ==
    [i \in 1..Len(logical_edges) |-> LinkMapping(G, logical_edges[i], node_mappings)]

\* variant that gives the links the weight of the nodes and the nodes that of
\* the links
total_fit_score_weights_swapped(node_mappings, link_mappings) ==
    LET sumN == SumSeq([i \in 1..Len(node_mappings) |-> node_mappings[i].fit_score])
        sumL == SumSeq([i \in 1..Len(link_mappings) |-> link_mappings[i].fit_score])
        lenN == Len(node_mappings)
        lenL == Len(link_mappings)
    IN  IF lenN = 0 /\ lenL = 0 THEN 0
        ELSE IF lenL = 0 THEN RoundDiv(3 * sumN, 10 * lenN)
        ELSE IF lenN = 0 THEN RoundDiv(7 * sumL, 10 * lenL)
        ELSE RoundDiv(3 * sumN * lenL + 7 * sumL * lenN, 10 * lenN * lenL)

\* round(mean(node scores) * 0.7 + mean(link scores) * 0.3, 2), in hundredths
total_fit_score(node_mappings, link_mappings) ==
    LET sumN == SumSeq([i \in 1..Len(node_mappings) |-> node_mappings[i].fit_score])
        sumL == SumSeq([i \in 1..Len(link_mappings) |-> link_mappings[i].fit_score])
        lenN == Len(node_mappings)
        lenL == Len(link_mappings)
    IN  IF lenN = 0 /\ lenL = 0 THEN 0
        ELSE IF lenL = 0 THEN RoundDiv(7 * sumN, 10 * lenN)
        ELSE IF lenN = 0 THEN RoundDiv(3 * sumL, 10 * lenL)
        ELSE RoundDiv(7 * sumN * lenL + 3 * sumL * lenN, 10 * lenN * lenL)

\* a strategy that returns None
NoMapping == [mapping_id |-> "None"]

TopologyMapping(G, strategy_name, logical_edges, node_mappings) ==
    LET link_mappings == _generate_link_mappings(G, logical_edges, node_mappings)
    IN  [mapping_id |-> strategy_name,
         total_fit_score |-> total_fit_score(node_mappings, link_mappings),
         node_mappings |-> node_mappings,
         link_mappings |-> link_mappings]

(***************************************************************************)
(* Mapping strategies.  G is the physical graph of the call; a walk        *)
(* returns [ok, node_mappings], ok = FALSE standing for `return None`.     *)
(***************************************************************************)
WalkFailed == [ok |-> FALSE, node_mappings |-> <<>>]

\* variant that never restricts the candidates to the unused devices
UnusedOrAll_unrestricted(available_devices, used_devices) == available_devices

\* candidates of the greedy and connection-optimized walks: the unused
\* devices, or all of them when every one is used
UnusedOrAll(available_devices, used_devices) ==
    LET candidates == SelectSeq(available_devices, LAMBDA d : d \notin used_devices)
    IN  IF candidates = <<>> THEN available_devices ELSE candidates

\* variant of the greedy walk that skips a node without candidates instead of
\* giving up
RECURSIVE GreedyWalkSkipping(_, _, _, _, _)
GreedyWalkSkipping(G, logical_nodes, i, node_mappings, used_devices) ==
    IF i > Len(logical_nodes) THEN [ok |-> TRUE, node_mappings |-> node_mappings]
    ELSE
      LET logical_node == logical_nodes[i]
          available_devices == available_by_type(G, Lower(logical_node.deviceType))
          candidates == UnusedOrAll(available_devices, used_devices)
          matches == match_logical_node(G, logical_node, candidates)
      IN  IF matches = <<>>
          THEN GreedyWalkSkipping(G, logical_nodes, i + 1, node_mappings, used_devices)
          ELSE GreedyWalkSkipping(G, logical_nodes, i + 1,
                   Append(node_mappings,
                          NodeMapping(logical_node, matches[1], Slice(matches, 1, 4))),
                   used_devices \cup {matches[1].device_id})

RECURSIVE GreedyWalk(_, _, _, _, _)
GreedyWalk(G, logical_nodes, i, node_mappings, used_devices) ==
    IF i > Len(logical_nodes) THEN [ok |-> TRUE, node_mappings |-> node_mappings]
    ELSE
      LET logical_node == logical_nodes[i]
          logical_type == Lower(logical_node.deviceType)
          available_devices == available_by_type(G, logical_type)
          candidates == UnusedOrAll(available_devices, used_devices)
          matches == match_logical_node(G, logical_node, candidates)
      IN  IF matches = <<>> THEN WalkFailed
          ELSE GreedyWalk(G, logical_nodes, i + 1,
                   Append(node_mappings,
                          NodeMapping(logical_node, matches[1], Slice(matches, 1, 4))),
                   used_devices \cup {matches[1].device_id})

_generate_greedy_mapping(G, logical_nodes, logical_edges) ==
    LET walk == GreedyWalk(G, logical_nodes, 1, <<>>, {})
    IN  IF ~ walk.ok THEN NoMapping
        ELSE TopologyMapping(G, "greedy-best-fit", logical_edges, walk.node_mappings)

\* fit_score - usage * 0.1
\* variant that rewards earlier use instead of penalising it
adjusted_score_rewarding_use(fit_score, usage) == fit_score + usage * 10

adjusted_score(fit_score, usage) == fit_score - usage * 10

\* the matches sorted by adjusted score, descending (stable)
scored_matches(matches, device_usage_count) ==
    LET keyed == [i \in 1..Len(matches) |->
                    <<adjusted_score(matches[i].fit_score,
                                     device_usage_count[matches[i].device_id]),
                      matches[i]>>]
        sorted == SortDesc(keyed)
    IN  [i \in 1..Len(matches) |-> sorted[i][2]]

RECURSIVE BalancedWalk(_, _, _, _, _)
BalancedWalk(G, logical_nodes, i, node_mappings, device_usage_count) ==
    IF i > Len(logical_nodes) THEN [ok |-> TRUE, node_mappings |-> node_mappings]
    ELSE
      LET logical_node == logical_nodes[i]
          logical_type == Lower(logical_node.deviceType)
          available_devices == available_by_type(G, logical_type)
          matches == match_logical_node(G, logical_node, available_devices)
          scored == scored_matches(matches, device_usage_count)
          best_match == scored[1]
      IN  IF available_devices = <<>> THEN WalkFailed
          ELSE IF matches = <<>> THEN WalkFailed
          ELSE BalancedWalk(G, logical_nodes, i + 1,
                   Append(node_mappings,
                          NodeMapping(logical_node, best_match, Slice(scored, 1, 4))),
                   [device_usage_count EXCEPT ![best_match.device_id] = @ + 1])

\* variant that gives up when the walk assigned a device twice
_generate_balanced_mapping_without_reuse(G, logical_nodes, logical_edges) ==
    LET walk == BalancedWalk(G, logical_nodes, 1, <<>>, [d \in Range(G.nodes) |-> 0])
        assigned == {walk.node_mappings[i].physical_device_id : i \in 1..Len(walk.node_mappings)}
    IN  IF ~ walk.ok \/ Cardinality(assigned) < Len(walk.node_mappings) THEN NoMapping
        ELSE TopologyMapping(G, "balanced-distribution", logical_edges, walk.node_mappings)

_generate_balanced_mapping(G, logical_nodes, logical_edges) ==
    LET walk == BalancedWalk(G, logical_nodes, 1, <<>>, [d \in Range(G.nodes) |-> 0])
    IN  IF ~ walk.ok THEN NoMapping
        ELSE TopologyMapping(G, "balanced-distribution", logical_edges, walk.node_mappings)

\* logical_adj[logical_id]
logical_adj(logical_edges, logical_id) ==
    {logical_edges[i].target : i \in {j \in 1..Len(logical_edges) :
                                          logical_edges[j].source = logical_id}}
    \cup
    {logical_edges[i].source : i \in {j \in 1..Len(logical_edges) :
                                          logical_edges[j].target = logical_id}}

\* 0.1 for every logical neighbour already mapped to a device that shares a
\* physical edge with device_id
connection_bonus(G, logical_edges, logical_id, node_mappings, device_id) ==
    10 * Cardinality({n \in logical_adj(logical_edges, logical_id) :
            \E i \in 1..Len(node_mappings) :
                /\ node_mappings[i].logical_node_id = n
                /\ has_edge(G, device_id, node_mappings[i].physical_device_id)})

\* variant of the connection-optimized walk that does not cap the boosted
\* score at 1.0
RECURSIVE ConnectionWalkUncapped(_, _, _, _, _, _)
ConnectionWalkUncapped(G, logical_nodes, logical_edges, i, node_mappings, used_devices) ==
    IF i > Len(logical_nodes) THEN [ok |-> TRUE, node_mappings |-> node_mappings]
    ELSE
      LET logical_node == logical_nodes[i]
          logical_type == Lower(logical_node.deviceType)
          available_devices == available_by_type(G, logical_type)
          candidates == UnusedOrAll(available_devices, used_devices)
          matches == match_logical_node(G, logical_node, candidates)
          boosted == [k \in 1..Len(matches) |->
                        [matches[k] EXCEPT !.fit_score =
                            @ + connection_bonus(G, logical_edges, logical_node.id,
                                                 node_mappings, matches[k].device_id)]]
          sorted == SortByFitScore(boosted)
      IN  IF matches = <<>> THEN WalkFailed
          ELSE ConnectionWalkUncapped(G, logical_nodes, logical_edges, i + 1,
                   Append(node_mappings,
                          NodeMapping(logical_node, sorted[1], Slice(sorted, 1, 4))),
                   used_devices \cup {sorted[1].device_id})

RECURSIVE ConnectionWalk(_, _, _, _, _, _)
ConnectionWalk(G, logical_nodes, logical_edges, i, node_mappings, used_devices) ==
    IF i > Len(logical_nodes) THEN [ok |-> TRUE, node_mappings |-> node_mappings]
    ELSE
      LET logical_node == logical_nodes[i]
          logical_type == Lower(logical_node.deviceType)
          available_devices == available_by_type(G, logical_type)
          candidates == UnusedOrAll(available_devices, used_devices)
          matches == match_logical_node(G, logical_node, candidates)
          boosted == [k \in 1..Len(matches) |->
                        [matches[k] EXCEPT !.fit_score =
                            Min(100, @ + connection_bonus(G, logical_edges, logical_node.id,
                                                          node_mappings, matches[k].device_id))]]
          sorted == SortByFitScore(boosted)
      IN  IF matches = <<>> THEN WalkFailed
          ELSE ConnectionWalk(G, logical_nodes, logical_edges, i + 1,
                   Append(node_mappings,
                          NodeMapping(logical_node, sorted[1], Slice(sorted, 1, 4))),
                   used_devices \cup {sorted[1].device_id})

_generate_connection_optimized_mapping(G, logical_nodes, logical_edges) ==
    LET walk == ConnectionWalk(G, logical_nodes, logical_edges, 1, <<>>, {})
    IN  IF ~ walk.ok THEN NoMapping
        ELSE TopologyMapping(G, "connection-optimized", logical_edges, walk.node_mappings)

\* variant that leaves the mappings in the order of the strategies
SortByTotalFitScore_in_strategy_order(s) == s

\* mapping_options.sort(key=total_fit_score, reverse=True)
SortByTotalFitScore(s) ==
    LET keyed == [i \in 1..Len(s) |-> <<s[i].total_fit_score, s[i]>>]
        sorted == SortDesc(keyed)
    IN  [i \in 1..Len(s) |-> sorted[i][2]]

\* the return value of resolve_topology once the graph G is built
resolve_topology(G, logical_nodes, logical_edges, num_options) ==
    IF GraphFalsy(G) THEN <<>>
    ELSE
      LET mapping_options ==
              << _generate_greedy_mapping(G, logical_nodes, logical_edges),
                 _generate_balanced_mapping(G, logical_nodes, logical_edges),
                 _generate_connection_optimized_mapping(G, logical_nodes, logical_edges) >>
          kept == SelectSeq(mapping_options, LAMBDA m : m # NoMapping)
      IN  Slice(SortByTotalFitScore(kept), 0, num_options)

(***************************************************************************)
(* The resolver object and the store                                       *)
(***************************************************************************)
\* build_physical_graph: the graph is rebuilt from the store on every call;
\* the node attributes are also written to device_cache.  Returns the new
\* values of <<physical_graph, device_cache>>.
\* variant that keeps the graph of an earlier call on the resolver
build_physical_graph_cached(self_graph, self_cache, devs, bk, order, s, e) ==
    IF self_graph # NoGraph
    THEN << self_graph, self_cache >>
    ELSE LET G == BuildGraph(devs, bk, order, s, e)
         IN  << G,
                [d \in DOMAIN self_cache \cup Range(order) |->
                    IF d \in Range(order) THEN G.attrs[d] ELSE self_cache[d]] >>

build_physical_graph(self_graph, self_cache, devs, bk, order, s, e) ==
    LET G == BuildGraph(devs, bk, order, s, e)
    IN  << G,
           [d \in DOMAIN self_cache \cup Range(order) |->
               IF d \in Range(order) THEN G.attrs[d] ELSE self_cache[d]] >>

EmptyCache == [d \in {} |-> 0]

NoRequest == [logical_nodes |-> <<>>, logical_edges |-> <<>>,
              date_range_start |-> 0, date_range_end |-> 0,
              num_options |-> 0, stale |-> FALSE, none |-> TRUE]

DeviceRecord(i, t, st) ==
    [id |-> i, deviceType |-> t, status |-> st,
     maintenance_start |-> MaintNone, maintenance_end |-> MaintNone]

\* the inventories of at most n devices, ids 1..k, each of a <<type, status>>
\* kind of Kinds
Inventories(n, Kinds) ==
    UNION { {[i \in 1..k |-> DeviceRecord(i, f[i][1], f[i][2])] : f \in [1..k -> Kinds]} :
            k \in 0..n }

\* the orders in which an unordered query can return n rows
StoreOrders(n) == {f \in [1..n -> 1..n] : \A i, j \in 1..n : f[i] = f[j] => i = j}

\* the two orders by id
IdOrders(n) == {[i \in 1..n |-> i], [i \in 1..n |-> n + 1 - i]}

LogicalNodeLists(n, Types) ==
    UNION { {[i \in 1..k |-> [id |-> i, deviceType |-> f[i]]] : f \in [1..k -> Types]} :
            k \in 0..n }

LogicalEdge(a, b) == [source |-> a, target |-> b]

Windows == {w \in (0..MaxTime) \X (0..MaxTime) : w[1] < w[2]}

Idle == request = NoRequest

\* TopologyResolver(db): a new resolver replaces the one held
TopologyResolver__init__ ==
    /\ Idle
    /\ physical_graph # NoGraph
    /\ physical_graph' = NoGraph
    /\ device_cache' = EmptyCache
    /\ UNCHANGED <<devices, bookings, request, result>>

\* POST /bookings with one slot for an inventory device
create_bookings(d, s, e, st) ==
    /\ Idle
    /\ Len(bookings) < MaxBookings
    /\ bookings' = Append(bookings, [device_id |-> d, start_time |-> s,
                                      end_time |-> e, status |-> st])
    /\ UNCHANGED <<devices, physical_graph, device_cache, request, result>>

\* PUT /bookings/{booking_id}/cancel
cancel_booking(b) ==
    LET cancelled == [bookings EXCEPT ![b].status = "CANCELLED"]
        overlapping == {o \in 1..Len(cancelled) :
                          /\ cancelled[o].device_id = bookings[b].device_id
                          /\ cancelled[o].start_time < bookings[b].end_time
                          /\ cancelled[o].end_time > bookings[b].start_time
                          /\ cancelled[o].status \notin {"CANCELLED", "EXPIRED"}}
    IN  /\ Idle
        /\ bookings[b].status # "CANCELLED"
        /\ bookings' =
              IF Cardinality(overlapping) = 1
                 /\ \A o \in overlapping : cancelled[o].status = "CONFLICTING"
              THEN [o \in 1..Len(cancelled) |->
                      IF o \in overlapping
                      THEN [cancelled[o] EXCEPT !.status = "PENDING"]
                      ELSE cancelled[o]]
              ELSE cancelled
        /\ UNCHANGED <<devices, physical_graph, device_cache, request, result>>

\* variant of the call that holds the first device of its best mapping with
\* a PENDING reservation
ResolveTopology_holding(logical_nodes, logical_edges, s, e, num_options, order) ==
    /\ Idle
    /\ \E built \in {build_physical_graph(physical_graph, device_cache,
                                           devices, bookings, order, s, e)} :
        LET mappings == resolve_topology(built[1], logical_nodes, logical_edges,
                                         num_options)
        IN  /\ physical_graph' = built[1]
            /\ device_cache' = built[2]
            /\ request' = [op |-> "resolve_topology",
                            logical_nodes |-> logical_nodes,
                            logical_edges |-> logical_edges,
                            date_range_start |-> s, date_range_end |-> e,
                            num_options |-> num_options,
                            stale |-> physical_graph # NoGraph /\ physical_graph # built[1],
                            raised |-> FALSE]
            /\ result' = mappings
            /\ bookings' =
                  IF mappings # <<>> /\ mappings[1].node_mappings # <<>>
                  THEN Append(bookings,
                              [device_id |-> mappings[1].node_mappings[1].physical_device_id,
                               start_time |-> s, end_time |-> e, status |-> "PENDING"])
                  ELSE bookings
            /\ UNCHANGED devices

\* resolver.resolve_topology(nodes, edges, start, end, num_options) on the
\* resolver held; order is the order in which the store returns the devices.
\* request.stale records that the resolver entered the call holding a graph of
\* an earlier call that differs from the one this call builds.
ResolveTopology(logical_nodes, logical_edges, s, e, num_options, order) ==
    /\ Idle
    /\ \E built \in {build_physical_graph(physical_graph, device_cache,
                                           devices, bookings, order, s, e)} :
        /\ physical_graph' = built[1]
        /\ device_cache' = built[2]
        /\ request' = [op |-> "resolve_topology",
                        logical_nodes |-> logical_nodes, logical_edges |-> logical_edges,
                        date_range_start |-> s, date_range_end |-> e,
                        num_options |-> num_options,
                        stale |-> physical_graph # NoGraph /\ physical_graph # built[1],
                        raised |-> FALSE]
        /\ result' = resolve_topology(built[1], logical_nodes, logical_edges, num_options)
        /\ UNCHANGED <<devices, bookings>>

\* the call returns to a caller that keeps the resolver
ReturnToCaller ==
    /\ ~ Idle
    /\ request' = NoRequest
    /\ result' = <<>>
    /\ UNCHANGED <<devices, bookings, physical_graph, device_cache>>

\* the call returns to a caller that made the resolver for this one call, as
\* the /topology/resolve and /topology/suggest handlers do
Respond ==
    /\ ~ Idle
    /\ request' = NoRequest
    /\ result' = <<>>
    /\ physical_graph' = NoGraph
    /\ device_cache' = EmptyCache
    /\ UNCHANGED <<devices, bookings>>

(***************************************************************************)
(* Spec: a store whose bookings change; every call is made on a resolver   *)
(* of its own.                                                             *)
(***************************************************************************)
DeviceKinds == { <<"ROADM", "Available">>, <<"ROADM", "Maintenance">>,
                 <<"Fiber", "In Use">> }
LogicalTypeNames == {"roadm", "FIBER"}
CreateStatuses == {"PENDING", "CONFIRMED", "CONFLICTING"}
NumOptions == {1, 3}

EdgeLists == { <<>>, <<LogicalEdge(1, 2)>> }

InitStore(inventories) ==
    /\ devices \in inventories
    /\ bookings = <<>>
    /\ physical_graph = NoGraph
    /\ device_cache = EmptyCache
    /\ request = NoRequest
    /\ result = <<>>

Init == InitStore(Inventories(MaxDevices, DeviceKinds))

CreateBooking ==
    /\ Idle
    /\ \E d \in 1..Len(devices), w \in Windows, st \in CreateStatuses :
        create_bookings(d, w[1], w[2], st)

CancelBooking == \E b \in 1..Len(bookings) : cancel_booking(b)

Resolve ==
    /\ Idle
    /\ \E nodes \in LogicalNodeLists(MaxNodes, LogicalTypeNames), edges \in EdgeLists,
       w \in Windows, order \in StoreOrders(Len(devices)), num_options \in NumOptions :
        ResolveTopology(nodes, edges, w[1], w[2], num_options, order)

Next == CreateBooking \/ CancelBooking \/ Resolve \/ Respond

Spec == Init /\ [][Next]_vars

(***************************************************************************)
(* SpecResolver: the same store, and one resolver kept across calls.       *)
(***************************************************************************)
ResolverKinds == { <<"ROADM", "Available">>, <<"Fiber", "Available">> }

InitResolver == InitStore(Inventories(MaxDevices, ResolverKinds))

ResolveAgain ==
    /\ Idle
    /\ \E nodes \in LogicalNodeLists(MaxNodes, LogicalTypeNames),
       w \in Windows, order \in StoreOrders(Len(devices)) :
        ResolveTopology(nodes, <<>>, w[1], w[2], 3, order)

NextResolver ==
    CreateBooking \/ CancelBooking \/ ResolveAgain \/ ReturnToCaller
        \/ TopologyResolver__init__

SpecResolver == InitResolver /\ [][NextResolver]_vars

(***************************************************************************)
(* SpecStrategy: a fixed inventory of available devices returned in any    *)
(* order, and topologies with edges between any two node ids.              *)
(***************************************************************************)
StrategyKinds == { <<"ROADM", "Available">>, <<"Fiber", "Available">> }

NodeIdPairs(n) == {LogicalEdge(a, b) : a, b \in 1..n}

EdgeListsUpTo(k, n) == UNION { [1..j -> NodeIdPairs(n)] : j \in 0..k }

InitStrategy == InitStore(Inventories(MaxStratDevices, StrategyKinds))

ResolveStrategy ==
    /\ Idle
    /\ \E nodes \in LogicalNodeLists(MaxStratNodes, LogicalTypeNames),
       edges \in EdgeListsUpTo(MaxStratEdges, MaxStratNodes),
       order \in StoreOrders(Len(devices)), num_options \in NumOptions :
        ResolveTopology(nodes, edges, 0, 1, num_options, order)

NextStrategy == ResolveStrategy \/ Respond

SpecStrategy == InitStrategy /\ [][NextStrategy]_vars

(***************************************************************************)
(* SpecLink: inventories over four device types, topologies of up to three *)
(* nodes joined pairwise.                                                  *)
(***************************************************************************)
LinkKinds == { <<"ROADM", "Available">>, <<"Fiber", "Available">>,
               <<"OTDR", "Available">>, <<"Switch", "Available">> }
LinkLogicalTypeNames == {"otdr", "roadm", "switch"}
LinkEdgeLists == { <<LogicalEdge(1, 2)>>,
                   <<LogicalEdge(1, 2), LogicalEdge(1, 3), LogicalEdge(2, 3)>> }

InitLink == InitStore(Inventories(MaxLinkDevices, LinkKinds))

ResolveLinks ==
    /\ Idle
    /\ \E nodes \in LogicalNodeLists(MaxLinkNodes, LinkLogicalTypeNames),
       edges \in LinkEdgeLists, order \in IdOrders(Len(devices)) :
        ResolveTopology(nodes, edges, 0, 1, 3, order)

NextLink == ResolveLinks \/ Respond

SpecLink == InitLink /\ [][NextLink]_vars

(***************************************************************************)
(* Properties                                                              *)
(***************************************************************************)
Called == request # NoRequest

\* the assigned devices of a mapping
AssignedDevices(m) == {m.node_mappings[i].physical_device_id : i \in 1..Len(m.node_mappings)}

Mappings == {result[i] : i \in 1..Len(result)}

\* device d has an active reservation overlapping [s, e) in the store
HasActiveOverlap(d, s, e) ==
    \E b \in 1..Len(bookings) :
        /\ bookings[b].device_id = d
        /\ bookings[b].status \in {"PENDING", "CONFIRMED", "CONFLICTING"}
        /\ bookings[b].start_time < e
        /\ bookings[b].end_time > s

\* device d of the store is free in [s, e): status, maintenance, reservations
FreeInWindow(d, s, e) ==
    /\ Lower(devices[d].status) \notin {"maintenance", "unavailable", "broken"}
    /\ ~ _check_maintenance(devices[d], s, e)
    /\ ~ HasActiveOverlap(d, s, e)

\* some device of the node's type (case-insensitively) is free in the window
NodeHasFreeDevice(node) ==
    \E d \in 1..Len(devices) :
        /\ Lower(devices[d].deviceType) = Lower(node.deviceType)
        /\ FreeInWindow(d, request.date_range_start, request.date_range_end)

\* a mapping that assigns one device to two logical nodes
ReusesDevice(m) ==
    \E i, j \in 1..Len(m.node_mappings) :
        i # j /\ m.node_mappings[i].physical_device_id = m.node_mappings[j].physical_device_id

\* C1: no node mapping of any returned mapping assigns a device that has a
\* PENDING, CONFIRMED or CONFLICTING reservation overlapping the window, also
\* when a strategy falls back to reusing a device.
C1_NoReservedDeviceAssigned ==
    Called =>
        \A m \in Mappings : \A d \in AssignedDevices(m) :
            ~ HasActiveOverlap(d, request.date_range_start, request.date_range_end)

\* a call in which one device is reserved in the window and a strategy had to
\* reuse the free device of that type for two logical nodes
C1_Witness ==
    /\ Called
    /\ \E d \in 1..Len(devices) :
          HasActiveOverlap(d, request.date_range_start, request.date_range_end)
    /\ \E m \in Mappings : ReusesDevice(m)

\* C5: every call computes availability from the store as it is at that call:
\* the availability the graph and the cache hold after the call is that of
\* the present devices and reservations, every assigned device is free now,
\* and a free device of the first node's type is offered for it; a graph left
\* on the resolver by an earlier call has no influence.
C5_ResultReflectsCurrentStore ==
    Called =>
        /\ Range(physical_graph.nodes) = 1..Len(devices)
        /\ \A d \in 1..Len(devices) :
              /\ physical_graph.attrs[d].available
                    = FreeInWindow(d, request.date_range_start, request.date_range_end)
              /\ device_cache[d] = physical_graph.attrs[d]
        /\ \A m \in Mappings : \A d \in AssignedDevices(m) :
              FreeInWindow(d, request.date_range_start, request.date_range_end)
        /\ \A m \in Mappings :
              (m.mapping_id = "greedy-best-fit" /\ Len(m.node_mappings) >= 1) =>
                 \A d \in 1..Len(devices) :
                    ( /\ FreeInWindow(d, request.date_range_start, request.date_range_end)
                      /\ Lower(devices[d].deviceType)
                            = Lower(request.logical_nodes[1].deviceType) )
                    => \/ m.node_mappings[1].physical_device_id = d
                       \/ \E a \in Range(m.node_mappings[1].alternatives) : a.device_id = d

\* a later call on a resolver that still held a different graph, after the
\* only overlapping reservation of a device was cancelled: the device is
\* assigned again
C5_Witness ==
    /\ Called
    /\ request.stale
    /\ \E b \in 1..Len(bookings) :
          /\ bookings[b].status = "CANCELLED"
          /\ bookings[b].start_time < request.date_range_end
          /\ bookings[b].end_time > request.date_range_start
          /\ \E m \in Mappings : bookings[b].device_id \in AssignedDevices(m)

\* C6: if some logical node has no free device of its type in the window,
\* the call returns the empty list.
C6_InfeasibleGivesEmptyList ==
    (Called /\ \E i \in 1..Len(request.logical_nodes) :
                  ~ NodeHasFreeDevice(request.logical_nodes[i]))
        => result = <<>>

\* a call for a node whose only device of that type is CONFIRMED-booked over
\* the whole window
C6_Witness ==
    /\ Called
    /\ result = <<>>
    /\ \E i \in 1..Len(request.logical_nodes) :
          /\ ~ NodeHasFreeDevice(request.logical_nodes[i])
          /\ \E b \in 1..Len(bookings) :
                /\ bookings[b].status = "CONFIRMED"
                /\ bookings[b].start_time <= request.date_range_start
                /\ bookings[b].end_time >= request.date_range_end
                /\ Lower(devices[bookings[b].device_id].deviceType)
                      = Lower(request.logical_nodes[i].deviceType)

\* C7 as claimed: if every logical node has a free device of its type in the
\* window and num_options >= 1, the call returns at least one mapping and
\* every node mapping of every returned mapping has fit_score 1.0.
C7_Claimed ==
    (Called /\ request.num_options >= 1
            /\ \A i \in 1..Len(request.logical_nodes) :
                  NodeHasFreeDevice(request.logical_nodes[i]))
        => /\ Len(result) >= 1
           /\ \A m \in Mappings : \A i \in 1..Len(m.node_mappings) :
                 m.node_mappings[i].fit_score = 100

\* C7 amended: the same, provided the inventory holds at least one device.
C7_FeasibleGivesFullScore ==
    (Called /\ request.num_options >= 1
            /\ Len(devices) >= 1
            /\ \A i \in 1..Len(request.logical_nodes) :
                  NodeHasFreeDevice(request.logical_nodes[i]))
        => /\ Len(result) >= 1
           /\ \A m \in Mappings : \A i \in 1..Len(m.node_mappings) :
                 m.node_mappings[i].fit_score = 100

\* a call for one node whose type has a free device that is not in status
\* "Available", answered with a mapping
C7_Witness ==
    /\ Called
    /\ Len(request.logical_nodes) >= 1
    /\ \A i \in 1..Len(request.logical_nodes) :
          NodeHasFreeDevice(request.logical_nodes[i])
    /\ \E m \in Mappings : \E d \in AssignedDevices(m) :
          Lower(devices[d].status) # "available"

(***************************************************************************)
(* Properties of the strategies (SpecStrategy)                             *)
(***************************************************************************)
\* C2: every returned mapping has exactly one node mapping per input logical
\* node, in input order, each with a device of the inventory; a strategy that
\* cannot cover a node emits nothing.
C2_OneNodeMappingPerLogicalNode ==
    Called =>
        \A m \in Mappings :
            /\ Len(m.node_mappings) = Len(request.logical_nodes)
            /\ \A i \in 1..Len(m.node_mappings) :
                  /\ m.node_mappings[i].logical_node_id = request.logical_nodes[i].id
                  /\ m.node_mappings[i].physical_device_id \in 1..Len(devices)

\* a call answered with all three strategies for a topology of several nodes
C2_Witness ==
    /\ Called
    /\ Len(request.logical_nodes) >= 2
    /\ Len(result) = 3

\* C3 (resolve part): every node fit_score, link fit_score and total_fit_score
\* of a returned mapping lies in [0, 1].
C3_ScoresInUnitInterval ==
    Called =>
        \A m \in Mappings :
            /\ m.total_fit_score \in 0..100
            /\ \A i \in 1..Len(m.node_mappings) : m.node_mappings[i].fit_score \in 0..100
            /\ \A i \in 1..Len(m.link_mappings) : m.link_mappings[i].fit_score \in 0..100

\* C4: the result does not depend on the order in which the store returns the
\* devices.
C4_SameResultForEveryStoreOrder ==
    Called =>
        \A order \in StoreOrders(Len(devices)) :
            resolve_topology(
                BuildGraph(devices, bookings, order,
                           request.date_range_start, request.date_range_end),
                request.logical_nodes, request.logical_edges, request.num_options)
            = result

\* the mapping of a strategy in the result
MappingsOf(id) == {m \in Mappings : m.mapping_id = id}

\* the available devices of a logical node's type, from the store
FreeDevicesFor(node) ==
    {d \in 1..Len(devices) :
        /\ Lower(devices[d].deviceType) = Lower(node.deviceType)
        /\ FreeInWindow(d, request.date_range_start, request.date_range_end)}

\* how often device d is assigned to the nodes before position i
UsedBefore(m, i, d) ==
    Cardinality({j \in 1..(i - 1) : m.node_mappings[j].physical_device_id = d})

\* C8: at every step of the balanced walk the chosen device maximises
\* fit_score - 0.1 x (times already assigned) among the candidates, so no
\* device gets a third assignment while a same-type device is unused.
C8_BalancedPicksLeastUsed ==
    Called =>
        \A m \in MappingsOf("balanced-distribution") :
            \A i \in 1..Len(m.node_mappings) :
                LET chosen == m.node_mappings[i].physical_device_id
                    cands == FreeDevicesFor(request.logical_nodes[i])
                IN  /\ \A d \in cands :
                          _compute_fit_score(physical_graph.attrs[chosen])
                              - 10 * UsedBefore(m, i, chosen)
                          >= _compute_fit_score(physical_graph.attrs[d])
                              - 10 * UsedBefore(m, i, d)
                    /\ UsedBefore(m, i, chosen) >= 2
                          => \A d \in cands : UsedBefore(m, i, d) >= 1

\* a balanced mapping of three same-type nodes onto two devices: one device
\* is taken a second time
C8_Witness ==
    /\ Called
    /\ \E m \in MappingsOf("balanced-distribution") :
          \E i \in 1..Len(m.node_mappings) :
              /\ UsedBefore(m, i, m.node_mappings[i].physical_device_id) >= 1
              /\ Cardinality(FreeDevicesFor(request.logical_nodes[i])) >= 2

\* the positions of the logical nodes of the type of node i
SameTypeNodes(i) ==
    {j \in 1..Len(request.logical_nodes) :
        Lower(request.logical_nodes[j].deviceType)
            = Lower(request.logical_nodes[i].deviceType)}

\* C9: in the greedy and the balanced mapping, nodes of a type that are no
\* more than the available devices of the type get pairwise distinct devices,
\* and a device is taken a second time only when every available device of
\* the type has been taken once.
C9_DistinctDevicesWhilePossible ==
    Called =>
        \A m \in MappingsOf("greedy-best-fit") \cup MappingsOf("balanced-distribution") :
            \A i \in 1..Len(m.node_mappings) :
                LET chosen == m.node_mappings[i].physical_device_id
                    cands == FreeDevicesFor(request.logical_nodes[i])
                IN  /\ Cardinality(SameTypeNodes(i)) <= Cardinality(cands)
                          => \A j \in SameTypeNodes(i) :
                                j # i => m.node_mappings[j].physical_device_id # chosen
                    /\ UsedBefore(m, i, chosen) >= 1
                          => \A d \in cands : UsedBefore(m, i, d) >= 1

\* a call for two nodes of one type with two available devices of the type,
\* answered by the greedy and the balanced strategy
C9_Witness ==
    /\ Called
    /\ MappingsOf("greedy-best-fit") # {}
    /\ MappingsOf("balanced-distribution") # {}
    /\ \E i \in 1..Len(request.logical_nodes) :
          /\ Cardinality(SameTypeNodes(i)) = 2
          /\ Cardinality(FreeDevicesFor(request.logical_nodes[i])) >= 2

(***************************************************************************)
(* Properties of the link resolver (SpecLink)                              *)
(***************************************************************************)
\* there is a walk of k physical edges from a to b
RECURSIVE WalkExists(_, _, _)
WalkExists(a, b, k) ==
    IF k = 0 THEN a = b
    ELSE \E c \in 1..Len(devices) :
            /\ c # a
            /\ _can_connect([device_type |-> devices[a].deviceType],
                            [device_type |-> devices[c].deviceType])
            /\ WalkExists(c, b, k - 1)

\* edges of a shortest path from a to b; -1 if b cannot be reached from a
Hops(a, b) ==
    LET ks == {k \in 0..Len(devices) : WalkExists(a, b, k)}
    IN  IF ks = {} THEN -1 ELSE CHOOSE k \in ks : \A j \in ks : k <= j

\* the hops between the two devices a link mapping joins
LinkHops(l) == Hops(l.physical_link_id[1], l.physical_link_id[2])

MappedLinks(m) ==
    {m.link_mappings[i] : i \in {j \in 1..Len(m.link_mappings) :
                                     m.link_mappings[j].physical_link_id # <<>>}}

\* C10: a link over a direct physical edge scores 1.0; a link over a shortest
\* path of k >= 2 edges scores strictly less than one over k - 1 edges; an
\* unreachable pair scores 0.3, strictly below any path of at most 3 hops.
C10_LinkScoreOrdering ==
    Called =>
        \A m \in Mappings :
            /\ \A l \in MappedLinks(m) :
                  /\ LinkHops(l) = 1 => l.fit_score = 100
                  /\ LinkHops(l) = -1 => l.fit_score = 30
                  /\ LinkHops(l) \in 1..3 => l.fit_score > 30
                  /\ LinkHops(l) <= 3
            /\ \A l1, l2 \in MappedLinks(m) :
                  (LinkHops(l1) >= 2 /\ LinkHops(l2) = LinkHops(l1) - 1)
                      => l1.fit_score < l2.fit_score

\* one mapping with a direct link, a 2-hop link and a 3-hop link
C10_Witness ==
    /\ Called
    /\ \E m \in Mappings :
          \A k \in 1..3 : \E l \in MappedLinks(m) : LinkHops(l) = k

\* a mapping with a link between two devices that no path joins
C10_WitnessUnreachable ==
    /\ Called
    /\ \E m \in Mappings : \E l \in MappedLinks(m) : LinkHops(l) = -1

(***************************************************************************)
(* Recommendation engine.  Rates, probabilities and confidences are        *)
(* integers in thousandths, durations in hundredths of an hour.            *)
(***************************************************************************)
\* timedelta(days=n) and timedelta(minutes=n), in ticks
Days(n) == n * TicksPerDay
Minutes(n) == n

\* round(num / den, k) for num >= 0 scaled to the k-th decimal: Python rounds
\* an exact half to the even neighbour
RoundHalfEven(num, den) ==
    LET q == num \div den
        r == num % den
    IN  IF 2 * r < den THEN q
        ELSE IF 2 * r > den THEN q + 1
        ELSE IF q % 2 = 0 THEN q ELSE q + 1

RECURSIVE SumOver(_, _)
SumOver(f, S) ==
    IF S = {} THEN 0
    ELSE LET x == CHOOSE y \in S : TRUE IN f[x] + SumOver(f, S \ {x})

\* the rows of the query of get_historical_booking_stats; device_id 0 and
\* device_type NoneVal stand for None
stats_bookings(bk, devs, device_id, device_type, now, days_back) ==
    LET cutoff_date == now - Days(days_back)
    IN  {b \in DOMAIN bk :
            /\ bk[b].start_time >= cutoff_date
            /\ IF device_id # 0 THEN bk[b].device_id = device_id
               ELSE IF device_type # NoneVal /\ device_type # ""
                    THEN /\ bk[b].device_id \in DOMAIN devs
                         /\ devs[bk[b].device_id].deviceType = device_type
                    ELSE TRUE}

\* variant that penalises conflicts in full
reliability_score_full_penalty(confirmed, conflicting, total) ==
    RoundHalfEven(1000 * confirmed * (total - conflicting), total * total)

\* round(success_rate * (1 - conflict_rate * 0.5), 3) for total > 0
reliability_score(confirmed, conflicting, total) ==
    RoundHalfEven(1000 * confirmed * (2 * total - conflicting), 2 * total * total)

get_historical_booking_stats(bk, devs, device_id, device_type, now, days_back) ==
    LET rows == stats_bookings(bk, devs, device_id, device_type, now, days_back)
        total == Cardinality(rows)
        confirmed == Cardinality({b \in rows : bk[b].status = "CONFIRMED"})
        cancelled == Cardinality({b \in rows : bk[b].status = "CANCELLED"})
        conflicting == Cardinality({b \in rows : bk[b].status = "CONFLICTING"})
        minutes == SumOver([b \in rows |-> bk[b].end_time - bk[b].start_time], rows)
    IN  IF rows = {}
        THEN [total_bookings |-> 0,
              success_rate |-> 0,
              cancellation_rate |-> 0,
              conflict_rate |-> 0,
              average_duration_hours |-> 0,
              reliability_score |-> 500]
        ELSE [total_bookings |-> total,
              success_rate |-> RoundHalfEven(1000 * confirmed, total),
              cancellation_rate |-> RoundHalfEven(1000 * cancelled, total),
              conflict_rate |-> RoundHalfEven(1000 * conflicting, total),
              average_duration_hours |-> RoundHalfEven(100 * minutes, 60 * total),
              reliability_score |-> reliability_score(confirmed, conflicting, total)]

_check_current_availability(device, bk, start, end) ==
    IF device.status # NoneVal /\ device.status # ""
       /\ Lower(device.status) \in {"maintenance", "unavailable"}
    THEN FALSE
    ELSE ~ \E b \in DOMAIN bk :
              /\ bk[b].device_id = device.id
              /\ bk[b].end_time > start
              /\ bk[b].start_time < end
              /\ bk[b].status \in {"PENDING", "CONFIRMED", "CONFLICTING"}

\* the density as a fraction [num, den] with den > 0
_calculate_booking_density(bk, device_id, start, end, window_days) ==
    LET historical_start == start - Days(window_days * 2)
        historical_end == end - Days(window_days)
        rows == {b \in DOMAIN bk :
                    /\ bk[b].device_id = device_id
                    /\ bk[b].start_time >= historical_start
                    /\ bk[b].end_time <= historical_end
                    /\ bk[b].status \in {"CONFIRMED", "PENDING"}}
        total_booked == SumOver([b \in rows |-> bk[b].end_time - bk[b].start_time], rows)
        window == end - start
    IN  IF rows = {} THEN [num |-> 0, den |-> 1]
        ELSE IF window > 0 THEN [num |-> Min(window, total_booked), den |-> window]
        ELSE [num |-> 0, den |-> 1]

\* None as the result of _find_earliest_available_slot
NoSlot == [none |-> TRUE]

\* the rows of the query of _find_earliest_available_slot
slot_bookings(bk, device_id, from_time, window_days) ==
    {b \in DOMAIN bk :
        /\ bk[b].device_id = device_id
        /\ bk[b].end_time > from_time
        /\ bk[b].end_time <= from_time + Days(window_days)
        /\ bk[b].status \in {"PENDING", "CONFIRMED", "CONFLICTING"}}

\* the orders in which ORDER BY end_time ASC may return the rows: rows with
\* equal end_time come in any order
EndAscOrders(bk, rows) ==
    {o \in [1..Cardinality(rows) -> rows] :
        /\ \A i, j \in DOMAIN o : i # j => o[i] # o[j]
        /\ \A i, j \in DOMAIN o : i < j => bk[o[i]].end_time <= bk[o[j]].end_time}

\* the loop over the bookings looking for a gap
RECURSIVE GapScan(_, _, _, _)
GapScan(bk, ordered, i, current_time) ==
    IF i > Len(ordered) THEN NoSlot
    ELSE IF current_time < bk[ordered[i]].start_time THEN [at |-> current_time]
    ELSE GapScan(bk, ordered, i + 1, Max(current_time, bk[ordered[i]].end_time))

\* ordered: the rows as the query returned them
_find_earliest_available_slot(bk, ordered, from_time, window_days) ==
    LET window_end == from_time + Days(window_days)
        last_booking_end ==
            CHOOSE t \in {bk[b].end_time : b \in Range(ordered)} :
                \A b \in Range(ordered) : bk[b].end_time <= t
    IN  IF ordered = <<>> THEN [at |-> from_time]
        ELSE IF last_booking_end < window_end
             THEN [at |-> last_booking_end + Minutes(1)]
        ELSE GapScan(bk, ordered, 1, from_time)

\* the forecast of one device; ordered as in _find_earliest_available_slot
DeviceForecast(devs, bk, device_id, start_time, end_time, forecast_window_days, now, ordered) ==
    LET device == devs[device_id]
        is_available_now == _check_current_availability(device, bk, start_time, end_time)
        historical_stats ==
            get_historical_booking_stats(bk, devs, device_id, NoneVal, now, 30)
        booking_density ==
            _calculate_booking_density(bk, device_id, start_time, end_time,
                                       forecast_window_days)
        \* max(0, min(1, 1 - density * 1.2)) as the fraction pnum / pden
        pden == 10 * booking_density.den
        pnum == Max(0, 10 * booking_density.den - 12 * booking_density.num)
        boosted == is_available_now /\ 10 * pnum < 7 * pden
        availability_prob ==
            IF boosted THEN 700 ELSE RoundHalfEven(1000 * pnum, pden)
        confidence_ ==
            IF historical_stats.total_bookings > 0
            THEN Min(1000, 100 * historical_stats.total_bookings)
            ELSE 300
        earliest_slot ==
            _find_earliest_available_slot(bk, ordered, start_time, forecast_window_days)
    IN  [availability_probability |-> availability_prob,
         confidence |-> confidence_,
         factors |->
             (IF 2 * booking_density.num > booking_density.den
              THEN <<"High historical booking density">> ELSE <<>>)
             \o (IF historical_stats.conflict_rate > 100
                 THEN <<"Frequent conflicts in past">> ELSE <<>>)
             \o (IF is_available_now THEN <<"Currently available">>
                 ELSE <<"Currently booked">>),
         earliest_available_slot |-> earliest_slot]

\* the devices of device_ids that db.query(Device).get finds
FoundDevices(devs, device_ids) == Range(device_ids) \cap DOMAIN devs

\* orders[d]: the rows of device d as the slot query returned them
forecast_availability(devs, bk, device_ids, start_time, end_time, forecast_window_days, now, orders) ==
    [d \in FoundDevices(devs, device_ids) |->
        DeviceForecast(devs, bk, d, start_time, end_time, forecast_window_days,
                       now, orders[d])]

\* the ways the slot queries of one forecast call may order their rows
SlotOrders(devs, bk, device_ids, start_time, forecast_window_days) ==
    LET found == FoundDevices(devs, device_ids)
        choices == [d \in found |->
                       EndAscOrders(bk, slot_bookings(bk, d, start_time,
                                                      forecast_window_days))]
    IN  {o \in [found -> UNION {choices[d] : d \in found}] :
            \A d \in found : o[d] \in choices[d]}

\* POST /availability/forecast; days 0 stands for a missing
\* forecast_window_days
ForecastAvailability(device_ids, start_time, end_time, days, now) ==
    /\ Idle
    /\ LET forecast_window_days == IF days = 0 THEN 7 ELSE days
       IN  \E orders \in SlotOrders(devices, bookings, device_ids, start_time,
                                     forecast_window_days) :
            /\ request' = [op |-> "forecast_availability",
                           device_ids |-> device_ids,
                           date_range_start |-> start_time,
                           date_range_end |-> end_time,
                           forecast_window_days |-> forecast_window_days,
                           now |-> now, raised |-> FALSE]
            /\ result' = [forecasts |->
                             forecast_availability(devices, bookings, device_ids,
                                 start_time, end_time, forecast_window_days, now, orders)]
    /\ UNCHANGED <<devices, bookings, physical_graph, device_cache>>

(***************************************************************************)
(* Recommendations.  Adjusted node fit scores and the four axis scores are *)
(* integers in thousandths; intermediate adjustments are in units of       *)
(* 1/100000.  Tick 0 is a Monday, 00:00.                                   *)
(***************************************************************************)
\* datetime.weekday(): Monday is 0, Sunday is 6
weekday(t) == (t \div TicksPerDay) % 7

\* (end.date() - start.date()).days
days_span(start, end) == (end \div TicksPerDay) - (start \div TicksPerDay)

Clamp(x, lo, hi) == Max(lo, Min(hi, x))

\* in units of 1/100000
_get_time_based_adjustment(start, end) ==
    (IF weekday(start) >= 5 \/ weekday(end) >= 5 \/ days_span(start, end) > 5
     THEN 0 - 2000 ELSE 0)
    + (IF days_span(start, end) > 7 THEN 0 - 1000 ELSE 0)

\* the adjusted score of predict_fit_score_adjustment in thousandths;
\* base_fit_score in hundredths
predict_fit_score_adjustment(bk, devs, device_id, device_type, base_fit_score, date_range_start, date_range_end, now) ==
    LET device_stats == get_historical_booking_stats(bk, devs, device_id, NoneVal, now, 90)
        type_stats == get_historical_booking_stats(bk, devs, 0, device_type, now, 90)
        \* combined_reliability in units of 1/10000
        combined_reliability ==
            7 * device_stats.reliability_score + 3 * type_stats.reliability_score
        reliability_adjustment == 2 * (combined_reliability - 5000)
        adjusted_once ==
            Clamp(1000 * base_fit_score + reliability_adjustment, 0, 100000)
        time_adjustment == _get_time_based_adjustment(date_range_start, date_range_end)
        adjusted_twice == Clamp(adjusted_once + time_adjustment, 0, 100000)
    IN  RoundHalfEven(adjusted_twice, 100)

\* the node mappings of _apply_fit_score_adjustments, fit_score in thousandths
adjusted_node_mappings(bk, devs, mapping, date_range_start, date_range_end, now) ==
    [i \in 1..Len(mapping.node_mappings) |->
        LET nm == mapping.node_mappings[i]
        IN  IF nm.physical_device_id # 0 /\ nm.physical_device_type # ""
            THEN [nm EXCEPT !.fit_score =
                     predict_fit_score_adjustment(bk, devs, nm.physical_device_id,
                         nm.physical_device_type, nm.fit_score,
                         date_range_start, date_range_end, now)]
            ELSE [nm EXCEPT !.fit_score = 10 * nm.fit_score]]

\* total_fit_score in hundredths, rounded to two decimals
_apply_fit_score_adjustments(bk, devs, mapping, date_range_start, date_range_end, now) ==
    LET adjusted == adjusted_node_mappings(bk, devs, mapping, date_range_start,
                                           date_range_end, now)
        sumN == SumSeq([i \in 1..Len(adjusted) |-> adjusted[i].fit_score])
        sumL == SumSeq([i \in 1..Len(mapping.link_mappings) |->
                           mapping.link_mappings[i].fit_score])
        lenN == Len(adjusted)
        lenL == Len(mapping.link_mappings)
    IN  [mapping EXCEPT
            !.node_mappings = adjusted,
            !.total_fit_score =
                IF lenN = 0 /\ lenL = 0 THEN 0
                ELSE IF lenL = 0 THEN RoundHalfEven(7 * sumN, 100 * lenN)
                ELSE IF lenN = 0 THEN RoundHalfEven(3 * sumL, 10 * lenL)
                ELSE RoundHalfEven(7 * sumN * lenL + 30 * sumL * lenN,
                                   100 * lenN * lenL)]

\* the axis scores as fractions [num, den] of one thousandth, den > 0
_calculate_performance_score(mapping) ==
    LET node_mappings == mapping.node_mappings
    IN  IF node_mappings = <<>> THEN [num |-> 0, den |-> 1]
        ELSE [num |-> SumSeq([i \in 1..Len(node_mappings) |-> node_mappings[i].fit_score]),
              den |-> Len(node_mappings)]

\* nm.get('available', False): a node mapping carries no 'available' key
_calculate_availability_score(mapping) ==
    LET node_mappings == mapping.node_mappings
        available_count ==
            Cardinality({i \in 1..Len(node_mappings) :
                            /\ "available" \in DOMAIN node_mappings[i]
                            /\ node_mappings[i]["available"] = TRUE})
    IN  IF node_mappings = <<>> THEN [num |-> 0, den |-> 1]
        ELSE [num |-> 1000 * available_count, den |-> Len(node_mappings)]

_calculate_efficiency_score(mapping) ==
    LET node_mappings == mapping.node_mappings
        unique_devices ==
            Cardinality({node_mappings[i].physical_device_id : i \in 1..Len(node_mappings)})
        total_nodes == Len(node_mappings)
    IN  IF node_mappings = <<>> THEN [num |-> 0, den |-> 1]
        ELSE [num |-> 1000 * Clamp(5 * total_nodes - 2 * unique_devices, 0, 4 * total_nodes),
              den |-> 4 * total_nodes]

_calculate_reliability_score(bk, devs, mapping, now) ==
    LET node_mappings == mapping.node_mappings
        scores == [i \in 1..Len(node_mappings) |->
                     LET nm == node_mappings[i]
                     IN  IF nm.physical_device_id # 0
                         THEN get_historical_booking_stats(bk, devs,
                                  nm.physical_device_id, NoneVal, now, 90).reliability_score
                         ELSE IF nm.physical_device_type # ""
                         THEN get_historical_booking_stats(bk, devs, 0,
                                  nm.physical_device_type, now, 90).reliability_score
                         ELSE 500]
    IN  IF node_mappings = <<>> THEN [num |-> 0, den |-> 1]
        ELSE [num |-> SumSeq(scores), den |-> Len(node_mappings)]

\* x >= n / 10 for the fraction x
AtLeastTenths(x, n) == 10 * x.num >= n * 1000 * x.den

_generate_rationale(performance_score, availability_score, efficiency_score, reliability_score_) ==
    LET parts ==
            (IF AtLeastTenths(performance_score, 8) THEN <<"Excellent performance fit">>
             ELSE IF AtLeastTenths(performance_score, 6) THEN <<"Good performance fit">>
             ELSE <<>>)
            \o (IF AtLeastTenths(availability_score, 9) THEN <<"All devices available">>
                ELSE IF AtLeastTenths(availability_score, 7) THEN <<"Most devices available">>
                ELSE IF ~ AtLeastTenths(availability_score, 5) THEN <<"Limited availability">>
                ELSE <<>>)
            \o (IF AtLeastTenths(efficiency_score, 7) THEN <<"Efficient resource usage">>
                ELSE <<>>)
            \o (IF AtLeastTenths(reliability_score_, 8) THEN <<"High historical reliability">>
                ELSE IF ~ AtLeastTenths(reliability_score_, 5)
                THEN <<"Lower reliability (check alternatives)">>
                ELSE <<>>)
    IN  IF parts = <<>> THEN <<"Standard configuration">> ELSE parts

\* orders[d]: the rows of device d as the slot query returned them
_find_earliest_slot_for_mapping(bk, mapping, preferred_start, orders) ==
    LET node_mappings == mapping.node_mappings
        earliest_slots ==
            {_find_earliest_available_slot(bk, orders[node_mappings[i].physical_device_id],
                                           preferred_start, 14) :
                i \in {j \in 1..Len(node_mappings) :
                          node_mappings[j].physical_device_id # 0}} \ {NoSlot}
    IN  IF node_mappings = <<>> \/ earliest_slots = {} THEN NoSlot
        ELSE CHOOSE s \in earliest_slots : \A t \in earliest_slots : t.at <= s.at

\* one entry of suggestions for the adjusted mapping
ScoredSuggestion(bk, devs, adjusted_mapping, date_range_start, now, orders) ==
    LET performance_score == _calculate_performance_score(adjusted_mapping)
        availability_score == _calculate_availability_score(adjusted_mapping)
        efficiency_score == _calculate_efficiency_score(adjusted_mapping)
        reliability_score_ == _calculate_reliability_score(bk, devs, adjusted_mapping, now)
        \* 0.3, 0.25, 0.25 and 0.2 of the axes over the denominator 40 * t; the
        \* efficiency fraction has the denominator 4 * t and an even numerator
        t == Max(1, Len(adjusted_mapping.node_mappings))
    IN  [mapping_id |-> adjusted_mapping.mapping_id,
         recommendation_score |->
             RoundHalfEven(12 * performance_score.num * (t \div performance_score.den)
                           + 10 * availability_score.num * (t \div availability_score.den)
                           + (5 * efficiency_score.num) \div 2
                           + 8 * reliability_score_.num * (t \div reliability_score_.den),
                           40 * t),
         performance_score |-> RoundHalfEven(performance_score.num, performance_score.den),
         availability_score |-> RoundHalfEven(availability_score.num, availability_score.den),
         efficiency_score |-> RoundHalfEven(efficiency_score.num, efficiency_score.den),
         reliability_score |-> RoundHalfEven(reliability_score_.num, reliability_score_.den),
         rationale |-> _generate_rationale(performance_score, availability_score,
                                           efficiency_score, reliability_score_),
         earliest_available_slot |->
             _find_earliest_slot_for_mapping(bk, adjusted_mapping, date_range_start, orders),
         mapping |-> adjusted_mapping]

\* the body of the loop over base_mappings: the mapping is adjusted, then
\* scored
Suggestion(bk, devs, mapping, date_range_start, date_range_end, now, orders) ==
    CHOOSE suggestion \in
        {ScoredSuggestion(bk, devs, adjusted_mapping, date_range_start, now, orders) :
            adjusted_mapping \in {_apply_fit_score_adjustments(bk, devs, mapping,
                                      date_range_start, date_range_end, now)}} : TRUE

\* suggestions.sort(key=recommendation_score, reverse=True)
SortByRecommendationScore(s) ==
    LET keyed == [i \in 1..Len(s) |-> <<s[i].recommendation_score, s[i]>>]
        sorted == SortDesc(keyed)
    IN  [i \in 1..Len(s) |-> sorted[i][2]]

suggest_topology_configurations(bk, devs, date_range_start, date_range_end, base_mappings, now, orders) ==
    CHOOSE sorted \in
        {SortByRecommendationScore(suggestions) :
            suggestions \in
                {[i \in 1..Len(base_mappings) |->
                     Suggestion(bk, devs, base_mappings[i], date_range_start,
                                date_range_end, now, orders)]}} : TRUE

\* the ways the slot queries of one suggest call may order their rows
SuggestOrders(devs, bk, start_time) ==
    LET choices == [d \in DOMAIN devs |->
                       EndAscOrders(bk, slot_bookings(bk, d, start_time, 14))]
    IN  {o \in [DOMAIN devs -> UNION {choices[d] : d \in DOMAIN devs}] :
            \A d \in DOMAIN devs : o[d] \in choices[d]}

(***************************************************************************)
(* SpecOracle: the availability oracle of the graph builder over devices   *)
(* with maintenance strings and reservations of every status.  One tick is *)
(* a minute; day n starts at n * TicksPerDay.                              *)
(***************************************************************************)
Label == [text |-> "All Day"]

\* <<maintenance_start, maintenance_end>> as stored in the two columns
MaintPairs ==
    { <<MaintNone, MaintNone>>,
      << <<Label, [day |-> 1]>>, <<Label, [day |-> 1]>> >>,      \* "All Day/D1" .. "All Day/D1"
      << <<Label, [day |-> 1]>>, <<Label, [day |-> 2]>> >>,      \* "All Day/D1" .. "All Day/D2"
      << <<[day |-> 1]>>, <<[day |-> 1]>> >>,                    \* "D1" .. "D1", no slash
      << <<[text |-> "soon"]>>, <<Label, [day |-> 1]>> >>,       \* no slash, no date
      << <<Label, [text |-> "soon"]>>, <<Label, [day |-> 1]>> >>, \* text after the slash
      << <<Label, [day |-> 1]>>, MaintNone >>,                   \* only one of the two set
      << <<[text |-> ""]>>, <<Label, [day |-> 1]>> >> }          \* empty string

OracleStatuses == {"Available", "BROKEN", "Unavailable", "Maintenance"}

AllBookingStatuses ==
    {"PENDING", "CONFIRMED", "CONFLICTING", "CANCELLED", "EXPIRED", "REJECTED"}

\* day 1 is 1440..2879 (10:00 is 2040, 12:00 is 2160), day 2 is 2880..4319
OracleWindows ==
    { <<0, 720>>, <<2040, 2160>>, <<1440, 2880>>, <<2880, 4320>>,
      <<3480, 3600>>, <<4320, 5760>> }

OracleBookingIntervals ==
    { <<1440, 2040>>, <<2040, 2160>>, <<2160, 2880>>, <<720, 4320>> }

\* <<status, <<maintenance_start, maintenance_end>>>> of a device
OracleKinds ==
    ({"Available"} \X MaintPairs)
    \cup (OracleStatuses \X {<<MaintNone, MaintNone>>})
    \cup {<<"BROKEN", << <<Label, [day |-> 1]>>, <<Label, [day |-> 2]>> >> >>}

OracleInventories ==
    UNION { {[i \in 1..k |->
                [id |-> i, deviceType |-> "ROADM", status |-> f[i][1],
                 maintenance_start |-> f[i][2][1], maintenance_end |-> f[i][2][2]]] :
             f \in [1..k -> OracleKinds]} :
            k \in 1..MaxOracleDevices }

OracleBookingLists(n) ==
    UNION { [1..k -> {[device_id |-> d, start_time |-> w[1], end_time |-> w[2], status |-> st] :
                        d \in 1..n, w \in OracleBookingIntervals, st \in AllBookingStatuses}] :
            k \in 0..MaxOracleBookings }

InitOracle ==
    /\ devices \in OracleInventories
    /\ bookings \in OracleBookingLists(Len(devices))
    /\ physical_graph = NoGraph
    /\ device_cache = EmptyCache
    /\ request = NoRequest
    /\ result = <<>>

\* TopologyResolver(db).build_physical_graph(s, e)
BuildPhysicalGraph ==
    /\ Idle
    /\ \E w \in OracleWindows, order \in StoreOrders(Len(devices)) :
        \E built \in {build_physical_graph(physical_graph, device_cache,
                                           devices, bookings, order, w[1], w[2])} :
            /\ physical_graph' = built[1]
            /\ device_cache' = built[2]
            /\ request' = [op |-> "build_physical_graph",
                           date_range_start |-> w[1], date_range_end |-> w[2]]
            /\ result' = <<>>
            /\ UNCHANGED <<devices, bookings>>

ForecastDeviceIds == {<<1>>, <<2, 1>>}
ForecastDays == {0, 1}
ForecastNows == {2040, Days(30) + 2040}

Forecast ==
    /\ Idle
    /\ \E device_ids \in ForecastDeviceIds, w \in OracleWindows,
          days \in ForecastDays, now \in ForecastNows :
        ForecastAvailability(device_ids, w[1], w[2], days, now)

NextOracle == BuildPhysicalGraph \/ Forecast \/ Respond

SpecOracle == InitOracle /\ [][NextOracle]_vars

(***************************************************************************)
(* Properties of the availability oracle (SpecOracle)                      *)
(***************************************************************************)
GraphBuilt == Called /\ request.op = "build_physical_graph"

StatusBlocks(d) == Lower(devices[d].status) \in {"maintenance", "unavailable", "broken"}

NoMaintenanceDates(d) ==
    devices[d].maintenance_start = MaintNone /\ devices[d].maintenance_end = MaintNone

\* C18: a device without maintenance dates is marked available iff its status
\* is none of maintenance, unavailable, broken (in any case) and no PENDING,
\* CONFIRMED or CONFLICTING reservation has start < window.end and
\* end > window.start.
C18_AvailableIffStatusAndNoActiveOverlap ==
    GraphBuilt =>
        \A d \in 1..Len(devices) :
            NoMaintenanceDates(d) =>
                physical_graph.attrs[d].available
                    = ( /\ ~ StatusBlocks(d)
                        /\ ~ HasActiveOverlap(d, request.date_range_start,
                                                 request.date_range_end) )

\* a device without maintenance dates with a CONFIRMED reservation that ends
\* exactly at the window start, marked available
C18_Witness ==
    /\ GraphBuilt
    /\ \E d \in 1..Len(devices) : \E b \in 1..Len(bookings) :
          /\ NoMaintenanceDates(d)
          /\ bookings[b].device_id = d
          /\ bookings[b].status = "CONFIRMED"
          /\ bookings[b].end_time = request.date_range_start
          /\ physical_graph.attrs[d].available

\* the string is "<label>/<date>": a slash, and a date after the last slash
LabelSlashDate(m) == Len(m) >= 2 /\ IsDateToken(m[Len(m)])

\* the text after the last slash, or the whole string without a slash, is a date
EndsInDate(m) == Len(m) >= 1 /\ IsDateToken(m[Len(m)])

\* the availability of device d is decided by status and reservations alone
DecidedByStatusAndReservations(d) ==
    /\ physical_graph.attrs[d].in_maintenance = (Lower(devices[d].status) = "maintenance")
    /\ physical_graph.attrs[d].available
          = ( /\ ~ StatusBlocks(d)
              /\ ~ HasActiveOverlap(d, request.date_range_start, request.date_range_end) )

C19_MaintenanceBlocksWholeDateRange ==
    GraphBuilt =>
        \A d \in 1..Len(devices) :
            (LabelSlashDate(devices[d].maintenance_start)
             /\ LabelSlashDate(devices[d].maintenance_end)) =>
                LET ds == devices[d].maintenance_start[2].day
                    de == devices[d].maintenance_end[2].day
                    s == request.date_range_start
                    e == request.date_range_end
                IN  /\ (s < (de + 1) * TicksPerDay /\ e > ds * TicksPerDay)
                        => ~ physical_graph.attrs[d].available
                    /\ (e < ds * TicksPerDay \/ s >= (de + 1) * TicksPerDay)
                        => DecidedByStatusAndReservations(d)

(***************************************************************************)
(* Properties of the forecaster (SpecOracle)                               *)
(***************************************************************************)
Forecasted == Called /\ request.op = "forecast_availability"

\* an active reservation of device d covers instant t
Covered(d, t) ==
    \E b \in 1..Len(bookings) :
        /\ bookings[b].device_id = d
        /\ bookings[b].status \in {"PENDING", "CONFIRMED", "CONFLICTING"}
        /\ bookings[b].start_time <= t
        /\ t < bookings[b].end_time

\* the uncovered instants of device d in the horizon; the earliest of them
\* is the start of the horizon or the end of a reservation
UncoveredInstants(d, from, to) ==
    {t \in {from} \cup {bookings[b].end_time : b \in 1..Len(bookings)} :
        from <= t /\ t < to /\ ~ Covered(d, t)}

EarliestUncovered(d, from, to) ==
    IF UncoveredInstants(d, from, to) = {} THEN NoSlot
    ELSE [at |-> CHOOSE t \in UncoveredInstants(d, from, to) :
                    \A u \in UncoveredInstants(d, from, to) : t <= u]

\* C12: earliest_available_slot of every forecast device is the earliest
\* instant of the horizon that no PENDING, CONFIRMED or CONFLICTING
\* reservation of the device covers, and null exactly when such reservations
\* cover the whole horizon.
C12_EarliestSlotIsFirstUncoveredInstant ==
    Forecasted =>
        \A d \in DOMAIN result.forecasts :
            result.forecasts[d].earliest_available_slot
                = EarliestUncovered(d, request.date_range_start,
                      request.date_range_start + Days(request.forecast_window_days))

\* C20: is_available_now of the forecaster equals the availability the graph
\* builder computes for the same device, window and reservations.
C20_ForecasterAgreesWithOracle ==
    Forecasted =>
        \A d \in DOMAIN result.forecasts :
            ("Currently available" \in Range(result.forecasts[d].factors))
                = DeviceAttrs(devices[d], bookings, request.date_range_start,
                              request.date_range_end).available

(***************************************************************************)
(* SpecStats: get_historical_booking_stats over stores given by the number *)
(* of rows of each kind.                                                   *)
(***************************************************************************)
Repeat(x, n) == [i \in 1..n |-> x]

StatsNow == Days(90) + 720

StatsBooking(d, start, st) ==
    [device_id |-> d, start_time |-> start, end_time |-> start + 90, status |-> st]

\* device 1 is a ROADM, device 2 a Fiber; the rows of device 1 start exactly
\* 90 days before StatsNow unless said otherwise
StatsStore(confirmed, conflicting, cancelled, pending, old, other, future) ==
    Repeat(StatsBooking(1, 720, "CONFIRMED"), confirmed)
    \o Repeat(StatsBooking(1, 720, "CONFLICTING"), conflicting)
    \o Repeat(StatsBooking(1, 720, "CANCELLED"), cancelled)
    \o Repeat(StatsBooking(1, 720, "PENDING"), pending)
    \o Repeat(StatsBooking(1, 0, "CONFIRMED"), old)                  \* before the lookback
    \o Repeat(StatsBooking(2, 720, "CONFLICTING"), other)            \* another device
    \o Repeat(StatsBooking(1, StatsNow + 720, "PENDING"), future)  \* not yet started

InitStats ==
    /\ devices = <<DeviceRecord(1, "ROADM", "Available"), DeviceRecord(2, "Fiber", "Available")>>
    /\ \E confirmed \in 0..MaxStatsConfirmed :
       \E conflicting, cancelled, pending, old, other, future \in 0..MaxStatsOther :
          bookings = StatsStore(confirmed, conflicting, cancelled, pending, old, other, future)
    /\ physical_graph = NoGraph
    /\ device_cache = EmptyCache
    /\ request = NoRequest
    /\ result = <<>>

StatsScopes == { <<1, NoneVal>>, <<2, NoneVal>>, <<0, "ROADM">>, <<0, "Fiber">>, <<0, NoneVal>> }
StatsDaysBack == {30, 90}

\* RecommendationEngine(db).get_historical_booking_stats(device_id, device_type, days_back)
GetStats ==
    /\ Idle
    /\ \E scope \in StatsScopes, days_back \in StatsDaysBack :
        /\ request' = [op |-> "get_historical_booking_stats",
                       device_id |-> scope[1], device_type |-> scope[2],
                       days_back |-> days_back, now |-> StatsNow]
        /\ result' = get_historical_booking_stats(bookings, devices, scope[1], scope[2],
                                                  StatsNow, days_back)
    /\ UNCHANGED <<devices, bookings, physical_graph, device_cache>>

NextStats == GetStats \/ Respond

SpecStats == InitStats /\ [][NextStats]_vars

(***************************************************************************)
(* Properties of the statistics (SpecStats)                                *)
(***************************************************************************)
StatsAsked == Called /\ request.op = "get_historical_booking_stats"

\* the reservations of the scope of the request that start at or after
\* now - days_back
InLookback ==
    {b \in 1..Len(bookings) :
        /\ bookings[b].start_time >= request.now - request.days_back * TicksPerDay
        /\ request.device_id # 0 => bookings[b].device_id = request.device_id
        /\ (request.device_id = 0 /\ request.device_type # NoneVal)
              => devices[bookings[b].device_id].deviceType = request.device_type}

CountOf(st) == Cardinality({b \in InLookback : bookings[b].status = st})

TopologyResolveHandler(logical_nodes, logical_edges, s, e, order) ==
    IF s >= e
    THEN /\ Idle
         /\ request' = [op |-> "resolve_topology",
                        logical_nodes |-> logical_nodes,
                        logical_edges |-> logical_edges,
                        date_range_start |-> s, date_range_end |-> e,
                        num_options |-> 3, stale |-> FALSE, raised |-> TRUE]
         /\ result' = <<>>
         /\ UNCHANGED <<devices, bookings, physical_graph, device_cache>>
    ELSE ResolveTopology(logical_nodes, logical_edges, s, e, 3, order)

\* POST /topology/suggest: a new resolver resolves with num_options = 5 and a
\* new engine ranks the mappings; no check of the window
SuggestTopology(logical_nodes, logical_edges, s, e, order, now) ==
    /\ Idle
    /\ \E built \in {build_physical_graph(NoGraph, EmptyCache,
                                           devices, bookings, order, s, e)} :
        \E base_mappings \in {resolve_topology(built[1], logical_nodes, logical_edges, 5)} :
            /\ physical_graph' = built[1]
            /\ device_cache' = built[2]
            /\ request' = [op |-> "suggest_topology_configurations",
                            logical_nodes |-> logical_nodes,
                            logical_edges |-> logical_edges,
                            date_range_start |-> s, date_range_end |-> e,
                            num_options |-> 5, stale |-> FALSE, raised |-> FALSE,
                            now |-> now]
            /\ \E orders \in SuggestOrders(devices, bookings, s) :
                result' = IF base_mappings = <<>> THEN <<>>
                          ELSE suggest_topology_configurations(bookings, devices, s, e,
                                   base_mappings, now, orders)
            /\ UNCHANGED <<devices, bookings>>

MaxCoreDevices == 2   \* devices in the inventory (SpecCore)

CoreKinds == { <<"ROADM", "Available">>, <<"Fiber", "Available">> }

\* a Monday window, two windows with end <= start, a Saturday window
CoreWindows == { <<0, 2>>, <<1, 1>>, <<2, 0>>, <<Days(5), Days(5) + 2>> }

CoreTopologies ==
    { [nodes |-> <<[id |-> 1, deviceType |-> "roadm"]>>, edges |-> <<>>],
      [nodes |-> <<[id |-> 1, deviceType |-> "roadm"], [id |-> 2, deviceType |-> "FIBER"]>>,
       edges |-> <<LogicalEdge(1, 2)>>] }

CoreDeviceIds == {<<1>>, <<2, 1>>}

CoreNow == Days(1) + 720

InitCore == InitStore(Inventories(MaxCoreDevices, CoreKinds))

CoreResolve ==
    /\ Idle
    /\ \E t \in CoreTopologies, w \in CoreWindows, order \in StoreOrders(Len(devices)) :
        TopologyResolveHandler(t.nodes, t.edges, w[1], w[2], order)

CoreSuggest ==
    /\ Idle
    /\ \E t \in CoreTopologies, w \in CoreWindows, order \in StoreOrders(Len(devices)) :
        SuggestTopology(t.nodes, t.edges, w[1], w[2], order, CoreNow)

CoreForecast ==
    /\ Idle
    /\ \E device_ids \in CoreDeviceIds, w \in CoreWindows :
        ForecastAvailability(device_ids, w[1], w[2], 0, CoreNow)

NextCore ==
    CreateBooking \/ CancelBooking \/ CoreResolve \/ CoreSuggest \/ CoreForecast
        \/ Respond

SpecCore == InitCore /\ [][NextCore]_vars

(***************************************************************************)
(* Properties of the handlers (SpecCore)                                   *)
(***************************************************************************)
CoreOps == {"resolve_topology", "suggest_topology_configurations", "forecast_availability"}

CoreCalled == Called /\ request.op \in CoreOps

\* the response of the call carries no mapping, recommendation or forecast
ResultEmpty ==
    IF request.op = "forecast_availability" THEN DOMAIN result.forecasts = {}
    ELSE result = <<>>

\* C13: a call of resolve, suggest or forecast whose window has end <= start
\* does not raise and returns an empty result, whatever the store holds.
C13_DegenerateWindowGivesEmptyResult ==
    (CoreCalled /\ request.date_range_end <= request.date_range_start)
        => (~ request.raised /\ ResultEmpty)

\* C16: every step that starts or answers a resolve, suggest or forecast call
\* leaves the devices and the reservations of the store, with all their
\* fields, as they were, and once the call is answered nothing of it is kept:
\* the graph and the cache of its resolver are gone with the resolver.
C16_CallsLeaveStoreUnchanged ==
    [][ /\ (request' # NoRequest /\ request'.op \in CoreOps /\ request = NoRequest)
            => (devices' = devices /\ bookings' = bookings)
        /\ (request # NoRequest /\ request.op \in CoreOps /\ request' = NoRequest)
            => /\ devices' = devices
               /\ bookings' = bookings
               /\ physical_graph' = NoGraph
               /\ device_cache' = EmptyCache
               /\ result' = <<>> ]_vars

\* a resolve call has returned mappings over a store that holds a reservation
C16_Witness ==
    /\ CoreCalled
    /\ request.op = "resolve_topology"
    /\ ~ request.raised
    /\ result # <<>>
    /\ bookings # <<>>

(***************************************************************************)
(* SpecLinkUnit: _generate_link_mappings applied to node mappings of any   *)
(* device ids, ids that are not nodes of the physical graph included.      *)
(***************************************************************************)
MaxUnitDevices == 2   \* devices in the inventory (SpecLinkUnit)

\* node mappings of the logical nodes 1 and 2 onto device ids 1..n
UnitNodeMappings(n) ==
    { << [logical_node_id |-> 1, physical_device_id |-> a,
          physical_device_type |-> "ROADM", fit_score |-> 100,
          confidence |-> "high", alternatives |-> <<>>],
         [logical_node_id |-> 2, physical_device_id |-> b,
          physical_device_type |-> "ROADM", fit_score |-> 100,
          confidence |-> "high", alternatives |-> <<>>] >> : a, b \in 1..n }

InitLinkUnit == InitStore(Inventories(MaxUnitDevices, LinkKinds))

\* resolver._generate_link_mappings(logical_edges, node_mappings, G) on the
\* graph the resolver built.  No statement of the method raises for a device
\* id that is not a node of G: has_edge answers False and nx.NodeNotFound is
\* caught.
GenerateLinkMappings ==
    /\ Idle
    /\ \E order \in StoreOrders(Len(devices)),
          node_mappings \in UnitNodeMappings(MaxUnitDevices + 1) :
        \E built \in {build_physical_graph(physical_graph, device_cache,
                                           devices, bookings, order, 0, 1)} :
            /\ physical_graph' = built[1]
            /\ device_cache' = built[2]
            /\ request' = [op |-> "_generate_link_mappings",
                           logical_edges |-> <<LogicalEdge(1, 2)>>,
                           node_mappings |-> node_mappings,
                           raised |-> FALSE]
            /\ result' = _generate_link_mappings(built[1], <<LogicalEdge(1, 2)>>,
                                                 node_mappings)
            /\ UNCHANGED <<devices, bookings>>

NextLinkUnit == GenerateLinkMappings \/ Respond

SpecLinkUnit == InitLinkUnit /\ [][NextLinkUnit]_vars

(***************************************************************************)
(* Properties of the link resolver on foreign node mappings (SpecLinkUnit) *)
(***************************************************************************)
LinksGenerated == Called /\ request.op = "_generate_link_mappings"

\* a node mapping of the call names a device that is no node of the graph
MapsAbsentDevice ==
    \E i \in 1..Len(request.node_mappings) :
        request.node_mappings[i].physical_device_id \notin Range(physical_graph.nodes)

\* C15: when a node mapping names a device that is not a node of the physical
\* graph, link resolution aborts: it raises and returns no link mapping.
C15_AbsentDeviceAborts ==
    (LinksGenerated /\ MapsAbsentDevice) => (request.raised /\ result = <<>>)

(***************************************************************************)
(* SpecConcurrent: two requests handled at the same time over a store that *)
(* does not change.  request, result, physical_graph and device_cache are  *)
(* functions here: request[r] and result[r] belong to request r,           *)
(* physical_graph[i] and device_cache[i] to the resolver object i.  A      *)
(* request advances one step at a time, and the steps of the two requests  *)
(* interleave in any order.                                                *)
(***************************************************************************)
MaxConcDevices == 2   \* devices in the inventory (SpecConcurrent)

ConcRequests == {1, 2}

\* variant in which the handlers use one resolver object of the module
resolver_of_shared(r) == 1

\* resolver = TopologyResolver(db) in the handler: request r has a resolver
\* object of its own
resolver_of(r) == r

ConcWindows == { <<0, 1>>, <<1, 2>> }

ConcNodes == << [id |-> 1, deviceType |-> "roadm"], [id |-> 2, deviceType |-> "roadm"] >>

ConcEdges == << LogicalEdge(1, 2) >>

\* no reservation, or device 1 reserved in the first window
ConcBookingLists(n) ==
    {<<>>} \cup {<< [device_id |-> 1, start_time |-> 0, end_time |-> 1,
                     status |-> st] >> : st \in IF n >= 1 THEN {"CONFIRMED"} ELSE {}}

InitConcurrent ==
    /\ devices \in Inventories(MaxConcDevices, {<<"ROADM", "Available">>})
    /\ bookings \in ConcBookingLists(Len(devices))
    /\ physical_graph = [i \in ConcRequests |-> NoGraph]
    /\ device_cache = [i \in ConcRequests |-> EmptyCache]
    /\ request = [r \in ConcRequests |-> NoRequest]
    /\ result = [r \in ConcRequests |-> <<>>]

\* the handler of request r is entered with its parameters; order is the
\* order in which the store will return the devices to this request
Receive(r) ==
    /\ request[r] = NoRequest
    /\ \E op \in CoreOps, w \in ConcWindows, order \in IdOrders(Len(devices)) :
        request' = [request EXCEPT ![r] =
                       [op |-> op, pc |-> "received",
                        logical_nodes |-> ConcNodes, logical_edges |-> ConcEdges,
                        date_range_start |-> w[1], date_range_end |-> w[2],
                        num_options |-> IF op = "resolve_topology" THEN 3 ELSE 5,
                        device_ids |-> <<1, 2>>, forecast_window_days |-> 7,
                        order |-> order, orders |-> <<>>, now |-> CoreNow,
                        raised |-> FALSE]]
    /\ UNCHANGED <<devices, bookings, physical_graph, device_cache, result>>

\* TopologyResolver(db)
Construct(r) ==
    /\ request[r] # NoRequest
    /\ request[r].pc = "received"
    /\ request[r].op \in {"resolve_topology", "suggest_topology_configurations"}
    /\ physical_graph' = [physical_graph EXCEPT ![resolver_of(r)] = NoGraph]
    /\ device_cache' = [device_cache EXCEPT ![resolver_of(r)] = EmptyCache]
    /\ request' = [request EXCEPT ![r].pc = "constructed"]
    /\ UNCHANGED <<devices, bookings, result>>

\* self.build_physical_graph(date_range_start, date_range_end)
Build(r) ==
    /\ request[r] # NoRequest
    /\ request[r].pc = "constructed"
    /\ \E built \in {build_physical_graph(physical_graph[resolver_of(r)],
                         device_cache[resolver_of(r)], devices, bookings,
                         request[r].order, request[r].date_range_start,
                         request[r].date_range_end)} :
        /\ physical_graph' = [physical_graph EXCEPT ![resolver_of(r)] = built[1]]
        /\ device_cache' = [device_cache EXCEPT ![resolver_of(r)] = built[2]]
    /\ request' = [request EXCEPT ![r].pc = "built"]
    /\ UNCHANGED <<devices, bookings, result>>

\* the strategies of resolve_topology on the graph the resolver holds
Match(r) ==
    /\ request[r] # NoRequest
    /\ request[r].pc = "built"
    /\ result' = [result EXCEPT ![r] =
                     resolve_topology(physical_graph[resolver_of(r)],
                                      request[r].logical_nodes, request[r].logical_edges,
                                      request[r].num_options)]
    /\ request' = [request EXCEPT ![r].pc =
                      IF request[r].op = "resolve_topology" THEN "done" ELSE "matched"]
    /\ UNCHANGED <<devices, bookings, physical_graph, device_cache>>

\* RecommendationEngine(db).suggest_topology_configurations on the base
\* mappings of the request
Rank(r) ==
    /\ request[r] # NoRequest
    /\ request[r].pc = "matched"
    /\ \E orders \in SuggestOrders(devices, bookings, request[r].date_range_start) :
        /\ result' = [result EXCEPT ![r] =
                         IF result[r] = <<>> THEN <<>>
                         ELSE suggest_topology_configurations(bookings, devices,
                                  request[r].date_range_start, request[r].date_range_end,
                                  result[r], request[r].now, orders)]
        /\ request' = [request EXCEPT ![r].pc = "done", ![r].orders = orders]
    /\ UNCHANGED <<devices, bookings, physical_graph, device_cache>>

\* RecommendationEngine(db).forecast_availability
ForecastStep(r) ==
    /\ request[r] # NoRequest
    /\ request[r].pc = "received"
    /\ request[r].op = "forecast_availability"
    /\ \E orders \in SlotOrders(devices, bookings, request[r].device_ids,
                                request[r].date_range_start,
                                request[r].forecast_window_days) :
        /\ result' = [result EXCEPT ![r] =
                         [forecasts |->
                             forecast_availability(devices, bookings, request[r].device_ids,
                                 request[r].date_range_start, request[r].date_range_end,
                                 request[r].forecast_window_days, request[r].now, orders)]]
        /\ request' = [request EXCEPT ![r].pc = "done", ![r].orders = orders]
    /\ UNCHANGED <<devices, bookings, physical_graph, device_cache>>

\* the response is sent; the objects of the request are dropped
Return(r) ==
    /\ request[r] # NoRequest
    /\ request[r].pc = "done"
    /\ request' = [request EXCEPT ![r] = NoRequest]
    /\ result' = [result EXCEPT ![r] = <<>>]
    /\ physical_graph' = [physical_graph EXCEPT ![resolver_of(r)] = NoGraph]
    /\ device_cache' = [device_cache EXCEPT ![resolver_of(r)] = EmptyCache]
    /\ UNCHANGED <<devices, bookings>>

NextConcurrent ==
    \E r \in ConcRequests :
        \/ Receive(r)
        \/ Construct(r)
        \/ Build(r)
        \/ Match(r)
        \/ Rank(r)
        \/ ForecastStep(r)
        \/ Return(r)

SpecConcurrent == InitConcurrent /\ [][NextConcurrent]_vars

(***************************************************************************)
(* Properties of concurrent requests (SpecConcurrent)                      *)
(***************************************************************************)
Done(r) == request[r] # NoRequest /\ request[r].pc = "done"

\* the result of request r when no other request runs: the same reads of the
\* store, done in one piece
ResultAlone(r) ==
    LET q == request[r]
        G == BuildGraph(devices, bookings, q.order, q.date_range_start, q.date_range_end)
        mappings == resolve_topology(G, q.logical_nodes, q.logical_edges, q.num_options)
    IN  IF q.op = "resolve_topology" THEN mappings
        ELSE IF q.op = "suggest_topology_configurations"
        THEN IF mappings = <<>> THEN <<>>
             ELSE suggest_topology_configurations(bookings, devices, q.date_range_start,
                      q.date_range_end, mappings, q.now, q.orders)
        ELSE [forecasts |->
                 forecast_availability(devices, bookings, q.device_ids,
                     q.date_range_start, q.date_range_end, q.forecast_window_days,
                     q.now, q.orders)]

\* C17: whatever steps of the other request came in between, a request that
\* has its result has exactly the result it gets when it runs alone over the
\* same store.
C17_ResultAsWhenRunAlone ==
    \A r \in ConcRequests : Done(r) => result[r] = ResultAlone(r)

\* both requests resolved at the same time, over different windows, and got
\* different mappings
C17_Witness ==
    /\ Done(1) /\ Done(2)
    /\ request[1].op = "resolve_topology"
    /\ request[2].op = "resolve_topology"
    /\ request[1].date_range_start # request[2].date_range_start
    /\ result[1] # result[2]
    /\ result[1] # <<>>
    /\ result[2] # <<>>

(***************************************************************************)
(* SpecMatch: match_logical_node applied to the node ids of the graph      *)
(* supplied in any order.                                                  *)
(***************************************************************************)
MaxMatchDevices == 3   \* devices in the inventory (SpecMatch)

InitMatch == InitStore(Inventories(MaxMatchDevices, DeviceKinds))

\* resolver.match_logical_node(logical_node, available_devices) on the graph
\* the resolver built
MatchLogicalNode ==
    /\ Idle
    /\ \E t \in LogicalTypeNames, order \in IdOrders(Len(devices)),
          available_devices \in StoreOrders(Len(devices)) :
        \E built \in {build_physical_graph(physical_graph, device_cache,
                                           devices, bookings, order, 0, 1)} :
            /\ physical_graph' = built[1]
            /\ device_cache' = built[2]
            /\ request' = [op |-> "match_logical_node",
                           logical_node |-> [id |-> 1, deviceType |-> t],
                           available_devices |-> available_devices]
            /\ result' = match_logical_node(built[1], [id |-> 1, deviceType |-> t],
                                            available_devices)
            /\ UNCHANGED <<devices, bookings>>

NextMatch == MatchLogicalNode \/ Respond

SpecMatch == InitMatch /\ [][NextMatch]_vars

(***************************************************************************)
(* Properties of the candidate matcher (SpecMatch)                         *)
(***************************************************************************)
Matched == Called /\ request.op = "match_logical_node"

\* C21: the candidates come sorted by fit_score descending and, among equal
\* fit_scores, by device id ascending, in whatever order the ids were supplied.
C21_CandidatesSortedByScoreThenId ==
    Matched =>
        \A i, j \in 1..Len(result) :
            i < j => \/ result[i].fit_score > result[j].fit_score
                     \/ /\ result[i].fit_score = result[j].fit_score
                        /\ result[i].device_id < result[j].device_id

(***************************************************************************)
(* Types of the assigned devices and of the alternatives                   *)
(***************************************************************************)
\* device d of the store has the type of the logical node, whatever the case
HasTypeOf(d, node) ==
    /\ d \in 1..Len(devices)
    /\ Lower(devices[d].deviceType) = Lower(node.deviceType)

\* C22: in every mapping a strategy returns, each node mapping assigns a
\* device whose type equals the logical node's deviceType case-insensitively,
\* and every alternative listed for that node has that type too.
C22_AssignedAndAlternativesHaveNodeType ==
    Called =>
        \A m \in Mappings : \A i \in 1..Len(m.node_mappings) :
            LET nm == m.node_mappings[i]
                node == request.logical_nodes[i]
            IN  /\ nm.logical_node_id = node.id
                /\ HasTypeOf(nm.physical_device_id, node)
                /\ Lower(nm.physical_device_type) = Lower(node.deviceType)
                /\ \A k \in 1..Len(nm.alternatives) :
                      /\ HasTypeOf(nm.alternatives[k].device_id, node)
                      /\ Lower(nm.alternatives[k].device_type) = Lower(node.deviceType)

\* every strategy answered, a node mapping lists alternatives, and the
\* inventory also holds a device of another type
C22_Witness ==
    /\ Called
    /\ Len(result) = 3
    /\ \E m \in Mappings : \E i \in 1..Len(m.node_mappings) :
          /\ m.node_mappings[i].alternatives # <<>>
          /\ \E d \in 1..Len(devices) :
                Lower(devices[d].deviceType)
                    # Lower(devices[m.node_mappings[i].physical_device_id].deviceType)

(***************************************************************************)
(* The total fit score of a mapping                                        *)
(***************************************************************************)
Abs(x) == IF x < 0 THEN 0 - x ELSE x

\* total (hundredths) is 0.7 x mean(node scores) + 0.3 x mean(link scores)
\* to the nearest hundredth; the node scores are in 1/unit, the link scores
\* in hundredths, and a mean over no scores counts 0
IsWeightedTotal(m, unit) ==
    LET lenN == Len(m.node_mappings)
        lenL == Len(m.link_mappings)
        sumN == SumSeq([i \in 1..lenN |-> m.node_mappings[i].fit_score])
        sumL == SumSeq([i \in 1..lenL |-> m.link_mappings[i].fit_score])
        n == Max(1, lenN)
        l == Max(1, lenL)
    IN  /\ Abs(10 * m.total_fit_score * unit * n * l
                - (700 * sumN * l + 3 * sumL * unit * n))
              <= 5 * unit * n * l
        /\ lenL = 0 => m.total_fit_score <= 70

\* C23: the total_fit_score of every mapping resolve() returns is 0.7 x the
\* mean node fit_score + 0.3 x the mean link fit_score, rounded to two
\* decimals, the link part counting 0.0 when the topology has no edges (so an
\* edge-free mapping scores at most 0.7); the totals suggest() returns satisfy
\* the same identity over the adjusted node scores.
C23_TotalIsWeightedMean ==
    /\ (Called /\ request.op = "resolve_topology") =>
          \A i \in 1..Len(result) : IsWeightedTotal(result[i], 100)
    /\ (Called /\ request.op = "suggest_topology_configurations") =>
          \A i \in 1..Len(result) : IsWeightedTotal(result[i].mapping, 1000)

\* suggest() returned a mapping with a link whose node scores were adjusted
\* away from the resolver's
C23_Witness ==
    /\ Called
    /\ request.op = "suggest_topology_configurations"
    /\ \E i \in 1..Len(result) :
          /\ result[i].mapping.link_mappings # <<>>
          /\ \E k \in 1..Len(result[i].mapping.node_mappings) :
                result[i].mapping.node_mappings[k].fit_score \notin {0, 1000}
          /\ result[i].mapping.total_fit_score \notin {0, 100}

(***************************************************************************)
(* SpecRank: topologies with more logical nodes of a type than the         *)
(* inventory has devices of it, so that the strategies reuse devices.      *)
(***************************************************************************)
MaxRankDevices == 2   \* devices in the inventory (SpecRank)
MaxRankNodes == 4     \* logical nodes of a topology (SpecRank)
MaxRankEdges == 1     \* logical edges of a topology (SpecRank)

InitRank == InitStore(Inventories(MaxRankDevices, StrategyKinds))

ResolveRank ==
    /\ Idle
    /\ \E nodes \in LogicalNodeLists(MaxRankNodes, LogicalTypeNames),
       edges \in EdgeListsUpTo(MaxRankEdges, MaxRankNodes),
       order \in StoreOrders(Len(devices)), num_options \in NumOptions :
        ResolveTopology(nodes, edges, 0, 1, num_options, order)

NextRank == ResolveRank \/ Respond

SpecRank == InitRank /\ [][NextRank]_vars

(***************************************************************************)
(* The list resolve() returns                                              *)
(***************************************************************************)
StrategyNames == {"greedy-best-fit", "balanced-distribution", "connection-optimized"}

\* mapping m has exactly one node mapping for every logical node of the call
Complete(m) ==
    /\ Len(m.node_mappings) = Len(request.logical_nodes)
    /\ \A n \in 1..Len(request.logical_nodes) :
          Cardinality({i \in 1..Len(m.node_mappings) :
                          m.node_mappings[i].logical_node_id = request.logical_nodes[n].id}) = 1

\* C24: resolve() returns at most min(3, num_options) mappings, at most one
\* per strategy name, every one of them complete, in order of non-increasing
\* total_fit_score.
C24_AtMostThreeCompleteSortedMappings ==
    (Called /\ request.op = "resolve_topology") =>
        /\ Len(result) <= Min(3, request.num_options)
        /\ \A i \in 1..Len(result) :
              /\ result[i].mapping_id \in StrategyNames
              /\ Complete(result[i])
        /\ \A i, j \in 1..Len(result) :
              i < j => /\ result[i].mapping_id # result[j].mapping_id
                       /\ result[i].total_fit_score >= result[j].total_fit_score

\* three mappings of different totals, the first not being the first strategy's
C24_Witness ==
    /\ Called
    /\ request.op = "resolve_topology"
    /\ Len(result) = 3
    /\ result[1].total_fit_score > result[3].total_fit_score
    /\ result[1].mapping_id # "greedy-best-fit"

(***************************************************************************)
(* The link mapping of every logical edge                                  *)
(***************************************************************************)
\* the device mapping m assigns to the logical node with this id, 0 if none
DeviceOf(m, logical_id) ==
    LET hits == {i \in 1..Len(m.node_mappings) :
                    m.node_mappings[i].logical_node_id = logical_id}
    IN  IF hits = {} THEN 0
        ELSE m.node_mappings[CHOOSE i \in hits : \A j \in hits : j <= i].physical_device_id

\* devices a and b of the store share a physical edge
Adjacent(a, b) ==
    /\ a # b
    /\ _can_connect([device_type |-> devices[a].deviceType],
                    [device_type |-> devices[b].deviceType])

\* the score the link resolver owes the logical edge between devices a and b
\* (0 for none), in hundredths
OwedLinkScore(a, b) ==
    IF a = 0 \/ b = 0 THEN 0
    ELSE IF Adjacent(a, b) THEN 100
    ELSE IF Hops(a, b) >= 0 THEN Max(50, 100 - (Hops(a, b) - 1) * 20)
    ELSE 30

\* C25: for each logical edge the link resolver yields exactly one link
\* mapping: fit_score 0.0 and a null physical_link_id if an endpoint is not
\* mapped; 1.0 if the two devices share a physical edge; max(0.5, 1.0 -
\* (L - 1) x 0.2) if they are not adjacent but a shortest path of L edges joins
\* them; 0.3 if no path does; physical_link_id is non-null exactly when both
\* endpoints are mapped.
C25_OneScoredLinkPerLogicalEdge ==
    (Called /\ request.op = "resolve_topology") =>
        \A m \in Mappings :
            /\ Len(m.link_mappings) = Len(request.logical_edges)
            /\ \A i \in 1..Len(m.link_mappings) :
                  LET l == m.link_mappings[i]
                      edge == request.logical_edges[i]
                      a == DeviceOf(m, edge.source)
                      b == DeviceOf(m, edge.target)
                  IN  /\ l.source_mapping = edge.source
                      /\ l.target_mapping = edge.target
                      /\ l.physical_link_id # <<>> <=> (a # 0 /\ b # 0)
                      /\ l.physical_link_id # <<>> => l.physical_link_id = <<a, b>>
                      /\ l.fit_score = OwedLinkScore(a, b)

\* one mapping with a link of an unmapped endpoint and a link over a path of
\* two edges or more
C25_Witness ==
    /\ Called
    /\ request.op = "resolve_topology"
    /\ \E m \in Mappings :
          /\ \E i \in 1..Len(m.link_mappings) : m.link_mappings[i].physical_link_id = <<>>
          /\ \E l \in MappedLinks(m) : LinkHops(l) >= 2

(***************************************************************************)
(* SpecAdjust: the score adjuster and its time adjustment applied to       *)
(* windows that start on any day of a week, over booking histories of      *)
(* device 1 (a ROADM) and device 2 (a Fiber).                              *)
(***************************************************************************)
MaxAdjustConfirmed == 2   \* CONFIRMED rows of device 1 (SpecAdjust)
MaxAdjustOther == 1       \* rows of every other kind (SpecAdjust)
MaxAdjustDays == 8        \* calendar days between start and end (SpecAdjust)

\* windows from 10:00 of a day of the first week to 12:00 of the same or a
\* later day
AdjustWindows ==
    {<<Days(a) + 600, Days(a + n) + 720>> : a \in 0..6, n \in 0..MaxAdjustDays}

\* base fit scores, in hundredths
BaseFitScores == {0, 50, 100}

InitAdjust ==
    /\ devices = <<DeviceRecord(1, "ROADM", "Available"), DeviceRecord(2, "Fiber", "Available")>>
    /\ \E confirmed \in 0..MaxAdjustConfirmed :
       \E conflicting, cancelled, other \in 0..MaxAdjustOther :
          bookings = StatsStore(confirmed, conflicting, cancelled, 0, 0, other, 0)
    /\ physical_graph = NoGraph
    /\ device_cache = EmptyCache
    /\ request = NoRequest
    /\ result = <<>>

\* RecommendationEngine(db).predict_fit_score_adjustment(device_id, device_type,
\* base_fit_score, date_range_start, date_range_end)
PredictFitScoreAdjustment ==
    /\ Idle
    /\ \E d \in DOMAIN devices, base_fit_score \in BaseFitScores, w \in AdjustWindows :
        /\ request' = [op |-> "predict_fit_score_adjustment",
                       device_id |-> d, device_type |-> devices[d].deviceType,
                       base_fit_score |-> base_fit_score,
                       date_range_start |-> w[1], date_range_end |-> w[2],
                       now |-> StatsNow]
        /\ result' = predict_fit_score_adjustment(bookings, devices, d,
                         devices[d].deviceType, base_fit_score, w[1], w[2], StatsNow)
    /\ UNCHANGED <<devices, bookings, physical_graph, device_cache>>

\* RecommendationEngine(db)._get_time_based_adjustment(start, end)
GetTimeBasedAdjustment ==
    /\ Idle
    /\ \E w \in AdjustWindows :
        /\ request' = [op |-> "_get_time_based_adjustment",
                       date_range_start |-> w[1], date_range_end |-> w[2]]
        /\ result' = _get_time_based_adjustment(w[1], w[2])
    /\ UNCHANGED <<devices, bookings, physical_graph, device_cache>>

NextAdjust == PredictFitScoreAdjustment \/ GetTimeBasedAdjustment \/ Respond

SpecAdjust == InitAdjust /\ [][NextAdjust]_vars

(***************************************************************************)
(* Properties of the score adjuster (SpecAdjust)                           *)
(***************************************************************************)
\* (combined_reliability - 0.5) x 0.2 of the call, in units of 1/100000
ReliabilityAdjustmentOfCall ==
    2 * (7 * get_historical_booking_stats(bookings, devices, request.device_id,
                                          NoneVal, request.now, 90).reliability_score
         + 3 * get_historical_booking_stats(bookings, devices, 0,
                                            request.device_type, request.now, 90).reliability_score
         - 5000)

\* C26: the score adjuster returns clamp(old + reliability_adjustment +
\* time_adjustment, 0, 1), one clamp of the sum, for every old score in [0,1],
\* every reliability_adjustment in [-0.1, +0.1] and every time_adjustment in
\* {0, -0.02, -0.03}.
C26_SingleClampOfSum ==
    (Called /\ request.op = "predict_fit_score_adjustment") =>
        result = RoundHalfEven(
                     Clamp(1000 * request.base_fit_score + ReliabilityAdjustmentOfCall
                               + _get_time_based_adjustment(request.date_range_start,
                                                            request.date_range_end),
                           0, 100000),
                     100)

\* some instant of [start, end) falls on a Saturday or a Sunday
ContainsWeekend(start, end) ==
    \E d \in (start \div TicksPerDay)..(end \div TicksPerDay) :
        /\ d % 7 >= 5
        /\ Days(d) < end
        /\ Days(d + 1) > start

\* C27: time_adjustment is -0.02 whenever the window contains any part of a
\* Saturday or Sunday or is longer than 5 days, a further -0.01 when it is
\* longer than 7 days, and 0 otherwise; a window from a Friday to the
\* following Monday gets -0.02.
C27_WeekendOrLongWindowPenalty ==
    (Called /\ request.op = "_get_time_based_adjustment") =>
        LET start == request.date_range_start
            end == request.date_range_end
        IN  result = (IF ContainsWeekend(start, end) \/ days_span(start, end) > 5
                      THEN 0 - 2000 ELSE 0)
                     + (IF days_span(start, end) > 7 THEN 0 - 1000 ELSE 0)

(***************************************************************************)
(* The availability axis of a recommendation (SpecCore)                    *)
(***************************************************************************)
\* C28: the availability axis of every recommendation suggest() returns is
\* the fraction of the mapping's node mappings whose assigned device is
\* available in the window (1.0 for the mappings of resolve(), whose devices
\* are all available).
C28_AvailabilityIsFractionOfFreeDevices ==
    (Called /\ request.op = "suggest_topology_configurations") =>
        \A i \in 1..Len(result) :
            LET node_mappings == result[i].mapping.node_mappings
                free == {k \in 1..Len(node_mappings) :
                            FreeInWindow(node_mappings[k].physical_device_id,
                                         request.date_range_start, request.date_range_end)}
            IN  /\ node_mappings # <<>>
                /\ result[i].availability_score
                       = RoundHalfEven(1000 * Cardinality(free), Len(node_mappings))

(***************************************************************************)
(* The strategies compared                                                 *)
(***************************************************************************)
\* C29: within one resolve() call the connection-optimized mapping assigns
\* to every logical node the same device, with the same node fit_score, and
\* has the same link mappings as the greedy-best-fit mapping.
C29_ConnectionOptimizedEqualsGreedy ==
    (Called /\ request.op = "resolve_topology") =>
        \A g \in MappingsOf("greedy-best-fit"), c \in MappingsOf("connection-optimized") :
            /\ Len(c.node_mappings) = Len(g.node_mappings)
            /\ \A i \in 1..Len(g.node_mappings) :
                  /\ c.node_mappings[i].logical_node_id = g.node_mappings[i].logical_node_id
                  /\ c.node_mappings[i].physical_device_id = g.node_mappings[i].physical_device_id
                  /\ c.node_mappings[i].fit_score = g.node_mappings[i].fit_score
            /\ c.link_mappings = g.link_mappings

\* both mappings returned, for a topology in which a node with several
\* candidates has a neighbour mapped before it, joined by a physical edge
C29_Witness ==
    /\ Called
    /\ request.op = "resolve_topology"
    /\ MappingsOf("greedy-best-fit") # {}
    /\ \E c \in MappingsOf("connection-optimized") :
          \E i, j \in 1..Len(c.node_mappings) :
              /\ j < i
              /\ c.node_mappings[i].alternatives # <<>>
              /\ c.node_mappings[j].logical_node_id
                     \in logical_adj(request.logical_edges, c.node_mappings[i].logical_node_id)
              /\ Adjacent(c.node_mappings[i].physical_device_id,
                          c.node_mappings[j].physical_device_id)

\* the strategy gave no mapping for the topology of the call on the graph of
\* the call
Infeasible(mapping) == mapping = NoMapping

\* C30: the three strategies are feasible or infeasible together: either all
\* of them emit a mapping or none does, so resolve() returns an empty list or
\* exactly min(3, num_options) mappings.
C30_StrategiesFeasibleTogether ==
    (Called /\ request.op = "resolve_topology" /\ ~ request.raised) =>
        /\ Len(result) \in {0, Min(3, request.num_options)}
        /\ ~ GraphFalsy(physical_graph) =>
              LET greedy == _generate_greedy_mapping(physical_graph,
                                request.logical_nodes, request.logical_edges)
                  balanced == _generate_balanced_mapping(physical_graph,
                                  request.logical_nodes, request.logical_edges)
                  connection == _generate_connection_optimized_mapping(physical_graph,
                                    request.logical_nodes, request.logical_edges)
              IN  /\ Infeasible(greedy) <=> Infeasible(balanced)
                  /\ Infeasible(greedy) <=> Infeasible(connection)
                  /\ Infeasible(greedy) <=> result = <<>>

\* three mappings for a topology with more nodes of a type than devices
C30_Witness ==
    /\ Called
    /\ request.op = "resolve_topology"
    /\ Len(result) = 3
    /\ \A m \in Mappings : ReusesDevice(m)

====
